---- MODULE Spec2Model ----
(***************************************************************************)
(* ShopFloorManagement: the machine, safety and order services, their     *)
(* controllers and the record store behind them (Prisma over SQLite).      *)
(*                                                                         *)
(* A JavaScript object is a function from the names of its present fields  *)
(* to their values; a field that is absent (undefined) is not in the       *)
(* domain.  JavaScript null and SQL NULL are the token Null.  A table is   *)
(* the sequence of its rows in insertion order; a row's position stands    *)
(* for its surrogate "id" column.  Timestamps are readings of the clock    *)
(* now.                                                                    *)
(***************************************************************************)
EXTENDS Integers, Sequences, FiniteSets, TLC

VARIABLES db, now, proc

vars == <<db, now, proc>>

\* ------------------------------------------------------------------ bounds

\* The clock stops ticking at MaxTime.
MaxTime == 2

\* The longest array a batch request carries.
MaxBatch == 3

\* The most safety logs a run creates.
MaxLogs == 2

\* The most words of a generated message.
MaxWords == 2

\* ------------------------------------------------------- JavaScript values

Null == "<null>"

\* JavaScript null in a field that holds a number (an output, a quantity): the
\* numbers of the requests are naturals.
NullNum == -1

EmptyObj == [f \in {} |-> 0]

Has(d, f) == f \in DOMAIN d

\* {f: v, ...d}
PutUnder(d, f, v) == [g \in DOMAIN d \cup {f} |-> IF g \in DOMAIN d THEN d[g] ELSE v]

\* {...d, f: v}
Put(d, f, v) == [g \in DOMAIN d \cup {f} |-> IF g = f THEN v ELSE d[g]]

\* const { f, ...rest } = d
Without(d, f) == [g \in DOMAIN d \ {f} |-> d[g]]

\* {...a, ...b}
Spread(a, b) == [g \in DOMAIN a \cup DOMAIN b |-> IF g \in DOMAIN b THEN b[g] ELSE a[g]]

\* d.f is truthy, for a field holding a string, null or undefined
Truthy(d, f) == Has(d, f) /\ d[f] # Null /\ d[f] # ""

\* d.f || dflt
OrElse(d, f, dflt) == IF Truthy(d, f) THEN d[f] ELSE dflt

\* d.f ?? dflt
Coalesce(d, f, dflt) == IF Has(d, f) /\ d[f] # Null THEN d[f] ELSE dflt

\* d.f ?? dflt, for a field holding a number, null or undefined
CoalesceNum(d, f, dflt) == IF Has(d, f) /\ d[f] # NullNum THEN d[f] ELSE dflt

\* arr.includes(v)
Includes(arr, v) == \E i \in 1..Len(arr) : arr[i] = v

\* arr.join(sep)
RECURSIVE Join(_, _)
Join(arr, sep) ==
  IF Len(arr) = 0 THEN ""
  ELSE IF Len(arr) = 1 THEN arr[1]
  ELSE arr[1] \o sep \o Join(Tail(arr), sep)

\* s.indexOf(t) + 1 (0 when t does not occur in s)
IndexOf(s, t) ==
  LET hits == {i \in 1..(Len(s) - Len(t) + 1) : SubSeq(s, i, i + Len(t) - 1) = t}
  IN IF hits = {} THEN 0 ELSE CHOOSE i \in hits : \A j \in hits : i <= j

\* s.includes(t)
Contains(s, t) == IndexOf(s, t) # 0

\* s.replace(t, r) with a string pattern: the first occurrence only
Replace(s, t, r) ==
  LET i == IndexOf(s, t)
  IN IF i = 0 THEN s
     ELSE SubSeq(s, 1, i - 1) \o r \o SubSeq(s, i + Len(t), Len(s))

\* `Invalid ${field}: ${value}. Must be one of: ${allowed.join(', ')}`
InvalidMsg(field, value, allowed) ==
  "Invalid " \o field \o ": " \o value \o ". Must be one of: " \o Join(allowed, ", ")

\* JavaScript null where an object is expected (a null element of a batch
\* array, a parser finding nothing), and a batch element that is not an object:
\* reading a property of the first throws, of the second gives undefined.
NullItem == [null |-> TRUE]

PrimitiveItem == [primitive |-> TRUE]

\* ------------------------------------------------------------------ strings

\* s.charAt(i - 1): the i-th character of s, "" outside s
Ch(s, i) == IF 1 <= i /\ i <= Len(s) THEN SubSeq(s, i, i) ELSE ""

\* s.slice(i - 1)
From(s, i) == IF i > Len(s) THEN "" ELSE SubSeq(s, i, Len(s))

Digits == "0123456789"

Lowers == "abcdefghijklmnopqrstuvwxyz"

Uppers == "ABCDEFGHIJKLMNOPQRSTUVWXYZ"

\* The cased letters of a text: a text is over the characters up to U+00FF
\* less U+00B5 and U+00FF, whose capitals lie beyond them.
CasedLowers == Lowers \o "àáâãäåæçèéêëìíîïðñòóôõöøùúûüýþ"

CasedUppers == Uppers \o "ÀÁÂÃÄÅÆÇÈÉÊËÌÍÎÏÐÑÒÓÔÕÖØÙÚÛÜÝÞ"

\* The characters of \s and of trim() among them: blank, tab, line feed,
\* vertical tab, form feed, carriage return and the no-break space.
Spaces == " \t\n\f\r "

\* The line terminators among them, which . does not match.
LineEnds == "\n\r"

\* The characters of a text, and the capital and the small letter of each
\* cased letter.
Chars(s) == {SubSeq(s, i, i) : i \in 1..Len(s)}

DigitChars == Chars(Digits)

LetterChars == Chars(Lowers \o Uppers)

SpaceChars == Chars(Spaces)

UpperOf == [c \in Chars(CasedLowers) |-> Ch(CasedUppers, IndexOf(CasedLowers, c))]

LowerOf == [c \in Chars(CasedUppers) |-> Ch(CasedLowers, IndexOf(CasedUppers, c))]

\* The character classes \d, [A-Z] under /i, \w and \s.
IsDigit(c) == c \in DigitChars

IsLetter(c) == c \in LetterChars

IsAlnum(c) == IsDigit(c) \/ IsLetter(c)

IsWord(c) == IsAlnum(c) \/ c = "_"

IsSpace(c) == c \in SpaceChars

IsLineEnd(c) == c \in Chars(LineEnds)

\* c.toUpperCase() of one character: the sharp s becomes two letters.
UpperCh(c) ==
  IF c = "ß" THEN "SS"
  ELSE IF c \in DOMAIN UpperOf THEN UpperOf[c]
  ELSE c

\* c.toLowerCase() of one character
LowerCh(c) == IF c \in DOMAIN LowerOf THEN LowerOf[c] ELSE c

\* s.toUpperCase()
RECURSIVE toUpperCase(_)
toUpperCase(s) == IF s = "" THEN "" ELSE UpperCh(Ch(s, 1)) \o toUpperCase(From(s, 2))

\* s.toLowerCase()
RECURSIVE toLowerCase(_)
toLowerCase(s) == IF s = "" THEN "" ELSE LowerCh(Ch(s, 1)) \o toLowerCase(From(s, 2))

\* s.charAt(0).toUpperCase() + s.slice(1).toLowerCase()
Capitalize(s) == UpperCh(Ch(s, 1)) \o toLowerCase(From(s, 2))

\* s.trim()
trim(s) ==
  LET inked == {i \in 1..Len(s) : ~IsSpace(Ch(s, i))}
  IN IF inked = {} THEN ""
     ELSE SubSeq(s, CHOOSE i \in inked : \A j \in inked : i <= j,
                    CHOOSE i \in inked : \A j \in inked : i >= j)

\* s.startsWith(w)
StartsWith(s, w) == Len(s) >= Len(w) /\ SubSeq(s, 1, Len(w)) = w

\* The text w, given in capitals, stands at position i of s in any case.
WordAt(s, i, w) ==
  i >= 1 /\ i + Len(w) - 1 <= Len(s) /\ toUpperCase(SubSeq(s, i, i + Len(w) - 1)) = w

\* The least element of a non-empty set of numbers, and 0 for the empty set.
Least(S) == IF S = {} THEN 0 ELSE CHOOSE i \in S : \A j \in S : i <= j

\* parseInt(s, 10) of a string of digits
RECURSIVE parseInt(_)
parseInt(s) ==
  IF s = "" THEN 0
  ELSE 10 * parseInt(SubSeq(s, 1, Len(s) - 1)) + (IndexOf(Digits, Ch(s, Len(s))) - 1)

\* A JSON value that may not be a string: a string s is [str |-> s].
Str(s) == [str |-> s]

\* A JSON value that is truthy and not a string (a number, an object, true).
NonText == [nontext |-> TRUE]

\* ----------------------------------------------------------- whatsappParser

\* /^M\d+/i.test(s)
LeadingMachineCode(s) == UpperCh(Ch(s, 1)) = "M" /\ IsDigit(Ch(s, 2))

\* /ORD\d+/i.test(s)
HasOrdDigits(s) == \E i \in 1..Len(s) : WordAt(s, i, "ORD") /\ IsDigit(Ch(s, i + 3))

\* detectIntent looking for the SAFETY keyword before the machine code.
detectIntentSafetyFirst(message) ==
  IF ~Has(message, "str") \/ message.str = "" THEN "UNKNOWN"
  ELSE IF Contains(toUpperCase(message.str), "SAFETY") THEN "SAFETY_UPDATE"
  ELSE IF LeadingMachineCode(trim(message.str)) THEN "MACHINE_UPDATE"
  ELSE IF Contains(toUpperCase(message.str), "ORDER") \/ HasOrdDigits(message.str)
  THEN "ORDER_UPDATE"
  ELSE "UNKNOWN"

detectIntent(message) ==
  IF ~Has(message, "str") \/ message.str = "" THEN "UNKNOWN"
  ELSE IF LeadingMachineCode(trim(message.str)) THEN "MACHINE_UPDATE"
  ELSE IF Contains(toUpperCase(message.str), "SAFETY") THEN "SAFETY_UPDATE"
  ELSE IF Contains(toUpperCase(message.str), "ORDER") \/ HasOrdDigits(message.str)
  THEN "ORDER_UPDATE"
  ELSE "UNKNOWN"

\* The end of the longest run of digits, of [A-Z0-9] under /i and of \w that
\* starts at position i of s (i - 1 when the run is empty).
DigitsEnd(s, i) == Least({j \in i..(Len(s) + 1) : ~IsDigit(Ch(s, j))}) - 1

AlnumEnd(s, i) == Least({j \in i..(Len(s) + 1) : ~IsAlnum(Ch(s, j))}) - 1

WordEnd(s, i) == Least({j \in i..(Len(s) + 1) : ~IsWord(Ch(s, j))}) - 1

\* \s* from position k: the position of the first character that is no space.
SkipSpaces(s, k) == Least({j \in k..(Len(s) + 1) : ~IsSpace(Ch(s, j))})

\* [=:]? from position k
SkipSep(s, k) == IF Ch(s, k) \in {"=", ":"} THEN k + 1 ELSE k

\* KEY[=:]?\s* matched at position i: where the value starts.
ValueStart(s, i, key) == SkipSpaces(s, SkipSep(s, i + Len(key)))

\* s.match(/KEY[=:]?\s*(\w+)/i): the capture, "" without a match.
MatchWord(s, key) ==
  LET i == Least({j \in 1..Len(s) : WordAt(s, j, key) /\ IsWord(Ch(s, ValueStart(s, j, key)))})
  IN IF i = 0 THEN ""
     ELSE SubSeq(s, ValueStart(s, i, key), WordEnd(s, ValueStart(s, i, key)))

\* s.match(/KEY[=:]?\s*(\d+)/i): the capture, "" without a match.
MatchDigits(s, key) ==
  LET i == Least({j \in 1..Len(s) : WordAt(s, j, key) /\ IsDigit(Ch(s, ValueStart(s, j, key)))})
  IN IF i = 0 THEN ""
     ELSE SubSeq(s, ValueStart(s, i, key), DigitsEnd(s, ValueStart(s, i, key)))

\* s.match(/KEY[=:]?\s*(W1|W2|...)/i) for words none of which begins another:
\* the alternative that matched, "" without a match.
MatchEnum(s, key, words) ==
  LET hit(j) == {n \in 1..Len(words) :
                   WordAt(s, j, key) /\ WordAt(s, ValueStart(s, j, key), toUpperCase(words[n]))}
      i == Least({j \in 1..Len(s) : hit(j) # {}})
  IN IF i = 0 THEN "" ELSE words[Least(hit(i))]

\* s.match(/KEY[=:]?\s*(.+?)(?:\s+(?:K1|K2|...)|$)/i):
\* [found |-> whether it matches, text |-> the capture].  The capture starts
\* at the last position from the end of the key up to the end of the separator
\* and the spaces from which it can end; it runs over no line terminator and
\* ends before the first run of spaces that a stop word follows, or with the
\* text.
MatchLazy(s, key, stops) ==
  LET ends(f) == {e \in f..Len(s) :
                    /\ \A k \in f..e : ~IsLineEnd(Ch(s, k))
                    /\ \/ e = Len(s)
                       \/ /\ IsSpace(Ch(s, e + 1))
                          /\ \E k \in stops : WordAt(s, SkipSpaces(s, e + 1), k)}
      starts(j) == {f \in (j + Len(key))..ValueStart(s, j, key) : f <= Len(s) /\ ends(f) # {}}
      i    == Least({j \in 1..Len(s) : WordAt(s, j, key) /\ starts(j) # {}})
      from == CHOOSE f \in starts(i) : \A g \in starts(i) : g <= f
  IN IF i = 0 THEN [found |-> FALSE, text |-> ""]
     ELSE [found |-> TRUE, text |-> SubSeq(s, from, Least(ends(from)))]

\* An object with field f when present holds, and without it otherwise.
Field(f, present, v) == IF present THEN [g \in {f} |-> v] ELSE EmptyObj

\* normalizeMachineStatus giving every status in lower case.
normalizeMachineStatusLower(status) ==
  LET normalized == toLowerCase(status) IN
  IF Contains(normalized, "run") THEN "running"
  ELSE IF Contains(normalized, "idle") THEN "idle"
  ELSE IF Contains(normalized, "maintain") THEN "maintenance"
  ELSE IF Contains(normalized, "error") \/ Contains(normalized, "down") THEN "error"
  ELSE normalized

normalizeMachineStatus(status) ==
  LET normalized == Capitalize(status) IN
  IF Contains(normalized, "run") THEN "Running"
  ELSE IF Contains(normalized, "idle") THEN "Idle"
  ELSE IF Contains(normalized, "maintain") THEN "Maintenance"
  ELSE IF Contains(normalized, "error") \/ Contains(normalized, "down") THEN "Error"
  ELSE normalized

\* The parsers return null, here NullItem, when they find no key.
parseMachineUpdate(message) ==
  LET i == Least({j \in 1..Len(message) :
                    UpperCh(Ch(message, j)) = "M" /\ IsDigit(Ch(message, j + 1))})
      statusMatch   == MatchWord(message, "STATUS")
      outputMatch   == MatchDigits(message, "OUTPUT")
      errorMatch    == MatchLazy(message, "ERROR", {"OPERATOR", "STATUS", "OUTPUT"})
      operatorMatch == MatchLazy(message, "OPERATOR", {})
  IN IF message = "" \/ i = 0 THEN NullItem
     ELSE Spread(Spread(Spread(Spread(
            [machine_id |-> toUpperCase(SubSeq(message, i, DigitsEnd(message, i + 1)))],
            Field("status", statusMatch # "", normalizeMachineStatus(statusMatch))),
            Field("output", outputMatch # "", parseInt(outputMatch))),
            Field("error_message", errorMatch.found, trim(errorMatch.text))),
            Field("operator", operatorMatch.found, trim(operatorMatch.text)))

\* utils.js: normalizeStatus
normalizeStatus(status) ==
  LET normalized == Capitalize(status) IN
  IF Contains(normalized, "run") THEN "Running"
  ELSE IF Contains(normalized, "idle") THEN "Idle"
  ELSE IF Contains(normalized, "maintain") THEN "Maintenance"
  ELSE IF Contains(normalized, "error") \/ Contains(normalized, "down") THEN "Error"
  ELSE normalized

\* utils.js: parseWhatsappMessage, the extractor of POST /machines/update.
\* Under /i the two alternatives of its STATUS and OUTPUT patterns match the
\* same texts.
parseWhatsappMessage(message) ==
  LET i == Least({j \in 1..Len(message) :
                    UpperCh(Ch(message, j)) = "M" /\ IsDigit(Ch(message, j + 1))})
      statusMatch   == MatchWord(message, "STATUS")
      outputMatch   == MatchDigits(message, "OUTPUT")
      errorMatch    == MatchLazy(message, "ERROR", {"OPERATOR"})
      operatorMatch == MatchLazy(message, "OPERATOR", {})
  IN IF message = "" \/ i = 0 THEN NullItem
     ELSE Spread(Spread(Spread(Spread(
            [machine_id |-> toUpperCase(SubSeq(message, i, DigitsEnd(message, i + 1)))],
            Field("status", statusMatch # "", normalizeStatus(trim(statusMatch)))),
            Field("output", outputMatch # "", parseInt(outputMatch))),
            Field("error_message", errorMatch.found, trim(errorMatch.text))),
            Field("operator", operatorMatch.found, trim(operatorMatch.text)))

\* s.match(/PPE[=:]?\s*([^,]+(?:,\s*[^,]+)*)/i): the capture runs from the
\* first character that is no comma to the text's end, or to the first comma
\* that the text's end or another comma follows.
MatchPpe(s) ==
  LET start(j) == LET a == SkipSep(s, j + 3)
                      b == SkipSpaces(s, a)
                  IN IF b <= Len(s) /\ Ch(s, b) # "," THEN b
                     ELSE IF b > a THEN b - 1
                     ELSE IF a > j + 3 THEN j + 3
                     ELSE 0
      i  == Least({j \in 1..Len(s) : WordAt(s, j, "PPE") /\ start(j) # 0})
      to == Least({e \in start(i)..Len(s) :
                     \/ e = Len(s)
                     \/ Ch(s, e + 1) = "," /\ Ch(s, e + 2) \in {"", ","}})
  IN IF i = 0 THEN [found |-> FALSE, text |-> ""]
     ELSE [found |-> TRUE, text |-> SubSeq(s, start(i), to)]

parseSafetyUpdate(message) ==
  LET i == Least({j \in 1..Len(message) :
                    /\ WordAt(message, j, "SAFETY")
                    /\ IsSpace(Ch(message, j + 6))
                    /\ IsWord(Ch(message, SkipSpaces(message, j + 6)))})
      zone        == SubSeq(message, SkipSpaces(message, i + 6),
                            WordEnd(message, SkipSpaces(message, i + 6)))
      ppeMatch    == MatchPpe(message)
      riskMatch   == MatchEnum(message, "RISK", <<"Low", "Medium", "High", "Critical">>)
      statusMatch == MatchEnum(message, "STATUS", <<"Safe", "Warning", "Critical", "Maintenance">>)
      notesMatch  == MatchLazy(message, "NOTES", {})
  IN IF message = "" \/ i = 0 THEN NullItem
     ELSE Spread(Spread(
            [area_name  |-> zone \o "_Area",
             zone       |-> zone,
             risk_level |-> IF riskMatch # "" THEN Capitalize(riskMatch) ELSE "Medium",
             status     |-> IF statusMatch # "" THEN Capitalize(statusMatch) ELSE "Safe"],
            Field("ppe_required", ppeMatch.found, trim(ppeMatch.text))),
            Field("notes", notesMatch.found, trim(notesMatch.text)))

normalizeOrderStage(stage) ==
  LET normalized == Capitalize(stage) IN
  IF Contains(normalized, "plan") THEN "Planning"
  ELSE IF Contains(normalized, "product") THEN "Production"
  ELSE IF Contains(normalized, "quality") \/ Contains(normalized, "qc") THEN "Quality"
  ELSE IF Contains(normalized, "pack") THEN "Packaging"
  ELSE IF Contains(normalized, "ship") THEN "Shipping"
  ELSE IF Contains(normalized, "complete") \/ Contains(normalized, "done") THEN "Completed"
  ELSE normalized

\* s.match(/ORD[A-Z0-9]+|\bORDER\s+([A-Z0-9]+)/i)[0]: the leftmost match, the
\* first alternative first; "" without a match.
MatchOrderId(s) ==
  LET direct(j) == WordAt(s, j, "ORD") /\ IsAlnum(Ch(s, j + 3))
      worded(j) == /\ WordAt(s, j, "ORDER")
                   /\ ~IsWord(Ch(s, j - 1))
                   /\ IsSpace(Ch(s, j + 5))
                   /\ IsAlnum(Ch(s, SkipSpaces(s, j + 5)))
      i == Least({j \in 1..Len(s) : direct(j) \/ worded(j)})
  IN IF i = 0 THEN ""
     ELSE IF direct(i) THEN SubSeq(s, i, AlnumEnd(s, i + 3))
     ELSE SubSeq(s, i, AlnumEnd(s, SkipSpaces(s, i + 5)))

\* s.replace(/^ORDER\s+/i, '')
StripOrderWord(s) ==
  IF WordAt(s, 1, "ORDER") /\ IsSpace(Ch(s, 6)) THEN From(s, SkipSpaces(s, 6)) ELSE s

\* s.match(/QUANTITY[=:]?\s*(\d+)|QTY[=:]?\s*(\d+)/i): the capture of the
\* leftmost match, "" without one.
MatchQuantity(s) ==
  LET at(j, key) == WordAt(s, j, key) /\ IsDigit(Ch(s, ValueStart(s, j, key)))
      i == Least({j \in 1..Len(s) : at(j, "QUANTITY") \/ at(j, "QTY")})
      v == IF at(i, "QUANTITY") THEN ValueStart(s, i, "QUANTITY") ELSE ValueStart(s, i, "QTY")
  IN IF i = 0 THEN "" ELSE SubSeq(s, v, DigitsEnd(s, v))

\* s.match(/ETA[=:]?\s*([A-Za-z0-9\-\s]+)/i)
MatchEta(s) ==
  LET inClass(c) == IsAlnum(c) \/ c = "-" \/ IsSpace(c)
      start(j) == LET a == SkipSep(s, j + 3)
                      b == SkipSpaces(s, a)
                  IN IF inClass(Ch(s, b)) THEN b ELSE IF b > a THEN b - 1 ELSE 0
      i  == Least({j \in 1..Len(s) : WordAt(s, j, "ETA") /\ start(j) # 0})
      to == Least({e \in start(i)..(Len(s) + 1) : ~inClass(Ch(s, e))}) - 1
  IN IF i = 0 THEN [found |-> FALSE, text |-> ""]
     ELSE [found |-> TRUE, text |-> SubSeq(s, start(i), to)]

parseOrderUpdate(message) ==
  LET orderIdMatch  == MatchOrderId(message)
      bare          == StripOrderWord(toUpperCase(orderIdMatch))
      stageMatch    == MatchWord(message, "STAGE")
      priorityMatch == MatchEnum(message, "PRIORITY", <<"Low", "Medium", "High", "Urgent">>)
      quantityMatch == MatchQuantity(message)
      etaMatch      == MatchEta(message)
      materialsMatch == MatchLazy(message, "MATERIALS", {"STAGE", "ETA", "PRIORITY"})
      statusMatch   == MatchEnum(message, "STATUS", <<"Active", "OnHold", "Completed", "Cancelled">>)
      assignedMatch == MatchLazy(message, "ASSIGNED", {})
  IN IF message = "" \/ orderIdMatch = "" THEN NullItem
     ELSE Spread(Spread(Spread(Spread(Spread(Spread(
            [order_id |-> IF StartsWith(bare, "ORD") THEN bare ELSE "ORD" \o bare,
             status   |-> IF statusMatch # "" THEN Capitalize(statusMatch) ELSE "Active"],
            Field("stage", stageMatch # "", normalizeOrderStage(stageMatch))),
            Field("priority", priorityMatch # "", Capitalize(priorityMatch))),
            Field("quantity", quantityMatch # "", parseInt(quantityMatch))),
            Field("eta", etaMatch.found, trim(etaMatch.text))),
            Field("materials", materialsMatch.found, trim(materialsMatch.text))),
            Field("assigned_to", assignedMatch.found, trim(assignedMatch.text)))

\* ------------------------------------------------------- shop-floor service

VALID_STATUSES == <<"Running", "Idle", "Maintenance", "Error">>

applyStatusValidation(data) ==
  LET v1 == IF Has(data, "status") /\ data.status = "Error" /\ ~Truthy(data, "error_message")
            THEN Put(data, "error_message", "Machine error detected")
            ELSE data
      v2 == IF Truthy(v1, "status") /\ v1.status # "Error" /\ Truthy(v1, "error_message")
            THEN Put(v1, "error_message", Null)
            ELSE v1
      v3 == IF Has(v2, "status") /\ v2.status = "Idle" /\ Has(v2, "output") /\ v2.output # 0
            THEN Put(v2, "output", 0)
            ELSE v2
  IN v3

\* The part of a service call that runs before its store call: either it
\* throws, or it hands the store one operation.  r holds the readings of
\* new Date() that the call takes, in the order it takes them.
Throw(msg) ==
  [throws |-> TRUE, error |-> msg, op |-> "none", table |-> "", keyField |-> "",
   key |-> "", update |-> EmptyObj, create |-> EmptyObj, wrap |-> ""]

Upsert(table, keyField, key, update, create, wrap) ==
  [throws |-> FALSE, error |-> "", op |-> "upsert", table |-> table, keyField |-> keyField,
   key |-> key, update |-> update, create |-> create, wrap |-> wrap]

\* A create carried out as an upsert on the area name.
CreateAsUpsert(table, create, wrap) ==
  Upsert(table, "area_name", create.area_name, create, create, wrap)

Create(table, create, wrap) ==
  [throws |-> FALSE, error |-> "", op |-> "create", table |-> table, keyField |-> "",
   key |-> "", update |-> EmptyObj, create |-> create, wrap |-> wrap]

\* updateMachine handing the store the whole new record as the update.
updateMachineReplacing(machineId, updateData, r) ==
  LET wrap == "Failed to update machine " \o machineId \o ": " IN
  IF Truthy(updateData, "status") /\ ~Includes(VALID_STATUSES, updateData.status)
  THEN Throw(wrap \o InvalidMsg("status", updateData.status, VALID_STATUSES))
  ELSE LET validated == applyStatusValidation(updateData)
           record == [machine_id    |-> machineId,
                      name          |-> OrElse(validated, "name", "Machine " \o machineId),
                      status        |-> OrElse(validated, "status", "Idle"),
                      output        |-> CoalesceNum(validated, "output", 0),
                      error_message |-> Coalesce(validated, "error_message", Null),
                      operator      |-> Coalesce(validated, "operator", Null),
                      last_updated  |-> r[2]]
       IN Upsert("machines", "machine_id", machineId, record, record, wrap)

updateMachine(machineId, updateData, r) ==
  LET wrap == "Failed to update machine " \o machineId \o ": " IN
  IF Truthy(updateData, "status") /\ ~Includes(VALID_STATUSES, updateData.status)
  THEN Throw(wrap \o InvalidMsg("status", updateData.status, VALID_STATUSES))
  ELSE LET validated == applyStatusValidation(updateData) IN
       Upsert("machines", "machine_id", machineId,
              Put(validated, "last_updated", r[1]),
              [machine_id    |-> machineId,
               name          |-> OrElse(validated, "name", "Machine " \o machineId),
               status        |-> OrElse(validated, "status", "Idle"),
               output        |-> CoalesceNum(validated, "output", 0),
               error_message |-> Coalesce(validated, "error_message", Null),
               operator      |-> Coalesce(validated, "operator", Null),
               last_updated  |-> r[2]],
              wrap)

\* ----------------------------------------------------------- safety service

SAFETY_VALID_STATUSES == <<"Safe", "Warning", "Critical", "Maintenance">>

VALID_RISK_LEVELS == <<"Low", "Medium", "High", "Critical">>

VALID_PPE_COMPLIANCE == <<"Compliant", "NonCompliant", "Partial">>

updateSafetyArea(areaName, updateData, r) ==
  LET wrap == "Failed to update safety area " \o areaName \o ": " IN
  IF Truthy(updateData, "status") /\ ~Includes(SAFETY_VALID_STATUSES, updateData.status)
  THEN Throw(wrap \o InvalidMsg("status", updateData.status, SAFETY_VALID_STATUSES))
  ELSE IF Truthy(updateData, "risk_level") /\ ~Includes(VALID_RISK_LEVELS, updateData.risk_level)
  THEN Throw(wrap \o InvalidMsg("risk_level", updateData.risk_level, VALID_RISK_LEVELS))
  ELSE Upsert("safety_areas", "area_name", areaName,
              Put(updateData, "last_inspection", r[1]),
              [area_name       |-> areaName,
               zone            |-> OrElse(updateData, "zone", Replace(areaName, "_Area", "")),
               ppe_required    |-> OrElse(updateData, "ppe_required", "Helmet,Gloves,Safety Shoes"),
               risk_level      |-> OrElse(updateData, "risk_level", "Medium"),
               status          |-> OrElse(updateData, "status", "Safe"),
               notes           |-> Coalesce(updateData, "notes", Null),
               last_inspection |-> r[2]],
              wrap)

\* The safety controller calls it only with a truthy logData.area_name.
createSafetyLog(logData, r) ==
  LET wrap == "Failed to create safety log: " IN
  IF Truthy(logData, "ppe_compliance") /\ ~Includes(VALID_PPE_COMPLIANCE, logData.ppe_compliance)
  THEN Throw(wrap \o InvalidMsg("ppe_compliance", logData.ppe_compliance, VALID_PPE_COMPLIANCE))
  ELSE Create("safety_logs",
              [area_name      |-> logData.area_name,
               zone           |-> OrElse(logData, "zone", Replace(logData.area_name, "_Area", "")),
               ppe_compliance |-> OrElse(logData, "ppe_compliance", "Compliant"),
               incident_type  |-> OrElse(logData, "incident_type", Null),
               description    |-> OrElse(logData, "description", Null),
               reported_by    |-> OrElse(logData, "reported_by", Null),
               created_at     |-> r[1]],
              wrap)

\* ------------------------------------------------------------ order service

VALID_STAGES == <<"Planning", "Production", "Quality", "Packaging", "Shipping", "Completed">>

ORDER_VALID_STATUSES == <<"Active", "OnHold", "Completed", "Cancelled">>

VALID_PRIORITIES == <<"Low", "Medium", "High", "Urgent">>

\* updateOrder creating orders with priority Low.
updateOrderLowPriority(orderId, updateData, r) ==
  LET wrap == "Failed to update order " \o orderId \o ": " IN
  IF Truthy(updateData, "stage") /\ ~Includes(VALID_STAGES, updateData.stage)
  THEN Throw(wrap \o InvalidMsg("stage", updateData.stage, VALID_STAGES))
  ELSE IF Truthy(updateData, "status") /\ ~Includes(ORDER_VALID_STATUSES, updateData.status)
  THEN Throw(wrap \o InvalidMsg("status", updateData.status, ORDER_VALID_STATUSES))
  ELSE IF Truthy(updateData, "priority") /\ ~Includes(VALID_PRIORITIES, updateData.priority)
  THEN Throw(wrap \o InvalidMsg("priority", updateData.priority, VALID_PRIORITIES))
  ELSE Upsert("orders", "order_id", orderId,
              Put(updateData, "updated_at", r[1]),
              [order_id      |-> orderId,
               customer_name |-> OrElse(updateData, "customer_name", Null),
               stage         |-> OrElse(updateData, "stage", "Planning"),
               priority      |-> OrElse(updateData, "priority", "Low"),
               quantity      |-> CoalesceNum(updateData, "quantity", 0),
               materials     |-> OrElse(updateData, "materials", Null),
               eta           |-> OrElse(updateData, "eta", Null),
               status        |-> OrElse(updateData, "status", "Active"),
               assigned_to   |-> OrElse(updateData, "assigned_to", Null),
               created_at    |-> r[2],
               updated_at    |-> r[3]],
              wrap)

updateOrder(orderId, updateData, r) ==
  LET wrap == "Failed to update order " \o orderId \o ": " IN
  IF Truthy(updateData, "stage") /\ ~Includes(VALID_STAGES, updateData.stage)
  THEN Throw(wrap \o InvalidMsg("stage", updateData.stage, VALID_STAGES))
  ELSE IF Truthy(updateData, "status") /\ ~Includes(ORDER_VALID_STATUSES, updateData.status)
  THEN Throw(wrap \o InvalidMsg("status", updateData.status, ORDER_VALID_STATUSES))
  ELSE IF Truthy(updateData, "priority") /\ ~Includes(VALID_PRIORITIES, updateData.priority)
  THEN Throw(wrap \o InvalidMsg("priority", updateData.priority, VALID_PRIORITIES))
  ELSE Upsert("orders", "order_id", orderId,
              Put(updateData, "updated_at", r[1]),
              [order_id      |-> orderId,
               customer_name |-> OrElse(updateData, "customer_name", Null),
               stage         |-> OrElse(updateData, "stage", "Planning"),
               priority      |-> OrElse(updateData, "priority", "Medium"),
               quantity      |-> CoalesceNum(updateData, "quantity", 0),
               materials     |-> OrElse(updateData, "materials", Null),
               eta           |-> OrElse(updateData, "eta", Null),
               status        |-> OrElse(updateData, "status", "Active"),
               assigned_to   |-> OrElse(updateData, "assigned_to", Null),
               created_at    |-> r[2],
               updated_at    |-> r[3]],
              wrap)

\* --------------------------------------------------------------- seed script

\* The sample records of the seed script; r holds the readings of new Date()
\* that the script takes while it builds them, in their order.
sampleMachines(r) ==
  <<[machine_id |-> "M01", name |-> "CNC Machine 01", status |-> "Running", output |-> 150,
     error_message |-> Null, operator |-> "Marudhachalam", last_updated |-> r[1]],
    [machine_id |-> "M02", name |-> "Assembly Line 02", status |-> "Idle", output |-> 0,
     error_message |-> Null, operator |-> "somasundram", last_updated |-> r[2]],
    [machine_id |-> "M03", name |-> "Packaging Unit 03", status |-> "Running", output |-> 120,
     error_message |-> Null, operator |-> "palanisamy", last_updated |-> r[3]],
    [machine_id |-> "M04", name |-> "Quality Control Station 04", status |-> "Maintenance",
     output |-> 0, error_message |-> "Scheduled maintenance - calibration check",
     operator |-> "D raghavan", last_updated |-> r[4]]>>

sampleSafetyAreas(r) ==
  <<[area_name |-> "WeldingZone_Area", zone |-> "WeldingZone",
     ppe_required |-> "Helmet,Gloves,Safety Shoes,Protective Apron", risk_level |-> "High",
     status |-> "Safe", notes |-> Null, last_inspection |-> r[5]],
    [area_name |-> "AssemblyZone_Area", zone |-> "AssemblyZone",
     ppe_required |-> "Helmet,Gloves,Safety Shoes", risk_level |-> "Medium",
     status |-> "Safe", notes |-> Null, last_inspection |-> r[6]],
    [area_name |-> "PackagingZone_Area", zone |-> "PackagingZone",
     ppe_required |-> "Gloves,Safety Shoes", risk_level |-> "Low", status |-> "Warning",
     notes |-> "Increased activity - monitor PPE compliance", last_inspection |-> r[7]]>>

sampleOrders(r) ==
  <<[order_id |-> "ORD1001", customer_name |-> "Durai Kannan", stage |-> "Production",
     priority |-> "High", quantity |-> 500, materials |-> "Steel,Plastic,Electronic Components",
     eta |-> "Nov-20", status |-> "Active", assigned_to |-> "Production Team A",
     created_at |-> r[8], updated_at |-> r[9]],
    [order_id |-> "ORD1002", customer_name |-> "Tech Solutions Inc", stage |-> "Quality",
     priority |-> "Medium", quantity |-> 200, materials |-> "Aluminum,Plastic",
     eta |-> "Nov-18", status |-> "Active", assigned_to |-> "Quality Team B",
     created_at |-> r[10], updated_at |-> r[11]],
    [order_id |-> "ORD1003", customer_name |-> "Global Industries", stage |-> "Packaging",
     priority |-> "Urgent", quantity |-> 1000, materials |-> "Steel,Plastic,Wood",
     eta |-> "Nov-17", status |-> "Active", assigned_to |-> "Packaging Team C",
     created_at |-> r[12], updated_at |-> r[13]],
    [order_id |-> "ORD1004", customer_name |-> "Local Manufacturing", stage |-> "Planning",
     priority |-> "Low", quantity |-> 150, materials |-> "Steel,Plastic",
     eta |-> "Nov-25", status |-> "Active", assigned_to |-> Null,
     created_at |-> r[14], updated_at |-> r[15]]>>

sampleSafetyLogs(r) ==
  <<[area_name |-> "WeldingZone_Area", zone |-> "WeldingZone", ppe_compliance |-> "Compliant",
     incident_type |-> "Inspection",
     description |-> "Routine safety inspection - all PPE requirements met",
     reported_by |-> "Safety Officer", created_at |-> r[16]],
    [area_name |-> "PackagingZone_Area", zone |-> "PackagingZone", ppe_compliance |-> "Partial",
     incident_type |-> "NearMiss",
     description |-> "Worker forgot safety glasses - reminder issued",
     reported_by |-> "Supervisor", created_at |-> r[17]]>>

\* The store calls of the seed script's main(), in their order: an upsert of
\* each machine, area and order with the sample record as update and as
\* create, then a create of each log.
SeedCalls(r) ==
  [i \in 1..4 |-> Upsert("machines", "machine_id", sampleMachines(r)[i].machine_id,
                         sampleMachines(r)[i], sampleMachines(r)[i], "")]
  \o [i \in 1..3 |-> Upsert("safety_areas", "area_name", sampleSafetyAreas(r)[i].area_name,
                            sampleSafetyAreas(r)[i], sampleSafetyAreas(r)[i], "")]
  \o [i \in 1..4 |-> Upsert("orders", "order_id", sampleOrders(r)[i].order_id,
                            sampleOrders(r)[i], sampleOrders(r)[i], "")]
  \o [i \in 1..2 |-> Create("safety_logs", sampleSafetyLogs(r)[i], "")]

\* -------------------------------------------------------------------- store

EmptyDb == [machines |-> <<>>, safety_areas |-> <<>>, safety_logs |-> <<>>, orders |-> <<>>]

\* The rows WHERE keyField = key, in table order.
SelectWhere(rows, keyField, key) ==
  LET RECURSIVE Pick(_)
      Pick(i) == IF i > Len(rows) THEN <<>>
                 ELSE IF rows[i][keyField] = key THEN <<rows[i]>> \o Pick(i + 1)
                 ELSE Pick(i + 1)
  IN Pick(1)

\* The columns declared NOT NULL, in the order of the CREATE TABLE statements.
NotNullColumns(table) ==
  IF table = "machines" THEN <<"machine_id", "name", "status", "output", "last_updated">>
  ELSE IF table = "safety_areas"
  THEN <<"area_name", "zone", "ppe_required", "risk_level", "last_inspection", "status">>
  ELSE IF table = "safety_logs" THEN <<"area_name", "zone", "ppe_compliance", "created_at">>
  ELSE IF table = "orders"
  THEN <<"order_id", "stage", "priority", "quantity", "status", "created_at", "updated_at">>
  ELSE <<>>

\* The NOT NULL columns of the table, by their place in NotNullColumns, that
\* data sets to null (the null of a column that holds a number or a time is
\* NullNum).
NotNullFailures(table, data) ==
  LET numeric == {"output", "quantity", "last_updated", "last_inspection",
                  "created_at", "updated_at"}
      nullIn(c) == Has(data, c) /\ (IF c \in numeric THEN data[c] = NullNum ELSE data[c] = Null)
  IN {i \in 1..Len(NotNullColumns(table)) : nullIn(NotNullColumns(table)[i])}

\* The constraint the statement reports: that of the first such column.
NotNullMsg(table, data) ==
  "NOT NULL constraint failed: " \o table \o "."
    \o NotNullColumns(table)[Least(NotNullFailures(table, data))]

\* UPDATE ... SET assigns the fields present in data and no other column; the
\* statement fails, and leaves the row, when it sets a NOT NULL column to null
\* (a column is NOT NULL in every table that has it).
SetColumns(row, data) ==
  IF \E tb \in DOMAIN EmptyDb : NotNullFailures(tb, data) # {}
  THEN row
  ELSE [c \in DOMAIN row |-> IF Has(data, c) THEN data[c] ELSE row[c]]

\* An UPDATE that writes back the row the SELECT saw with the new fields.
WriteBaseSeen(stored, seen) == seen

\* The row an UPDATE starts from: the stored row, not the one the SELECT saw.
WriteBase(stored, seen) == stored

\* An UPDATE without its WHERE clause.
UpdateEveryRow(rows, keyField, key, data, seen) ==
  [i \in 1..Len(rows) |-> SetColumns(WriteBase(rows[i], seen), data)]

\* An UPDATE that keeps only the rows of its WHERE clause.
UpdateDroppingOthers(rows, keyField, key, data, seen) ==
  LET kept == SelectWhere(rows, keyField, key)
  IN [i \in 1..Len(kept) |-> SetColumns(WriteBase(kept[i], seen), data)]

UpdateWhere(rows, keyField, key, data, seen) ==
  [i \in 1..Len(rows) |->
     IF rows[i][keyField] = key THEN SetColumns(WriteBase(rows[i], seen), data) ELSE rows[i]]

\* A table without the unique index.
NoUniqueIndex(rows, keyField, row) == FALSE

\* CREATE UNIQUE INDEX ... ON table(keyField): an INSERT of a taken key fails.
UniqueViolation(rows, keyField, row) ==
  keyField # "" /\ \E i \in 1..Len(rows) : rows[i][keyField] = row[keyField]

UniqueMsg(table, keyField) == "UNIQUE constraint failed: " \o table \o "." \o keyField

StoreDownMsg == "Database server unreachable"

\* The outcome of a service call: the record it returns, or the error it throws.
Returned(row) == [ok |-> TRUE, row |-> row, error |-> ""]

Thrown(msg) == [ok |-> FALSE, row |-> EmptyObj, error |-> msg]

\* A write whose INSERT replaces the table by the new record.
StoreWriteTruncating(rows, plan, seen) ==
  IF plan.op = "upsert" /\ seen # <<>>
  THEN LET rows2 == UpdateWhere(rows, plan.keyField, plan.key, plan.update, seen[1])
       IN [rows |-> rows2, out |-> Returned(SelectWhere(rows2, plan.keyField, plan.key)[1])]
  ELSE [rows |-> <<plan.create>>, out |-> Returned(plan.create)]

\* The write of prisma.<model>.upsert / create, after the upsert's SELECT saw
\* the rows seen: [rows |-> the table afterwards, out |-> the call's outcome].
StoreWrite(rows, plan, seen) ==
  IF plan.op = "upsert" /\ seen # <<>>
  THEN IF NotNullFailures(plan.table, plan.update) # {}
       THEN [rows |-> rows, out |-> Thrown(plan.wrap \o NotNullMsg(plan.table, plan.update))]
       ELSE LET rows2 == UpdateWhere(rows, plan.keyField, plan.key, plan.update, seen[1])
            IN [rows |-> rows2, out |-> Returned(SelectWhere(rows2, plan.keyField, plan.key)[1])]
  ELSE IF NotNullFailures(plan.table, plan.create) # {}
  THEN [rows |-> rows, out |-> Thrown(plan.wrap \o NotNullMsg(plan.table, plan.create))]
  ELSE IF UniqueViolation(rows, plan.keyField, plan.create)
  THEN [rows |-> rows, out |-> Thrown(plan.wrap \o UniqueMsg(plan.table, plan.keyField))]
  ELSE [rows |-> Append(rows, plan.create), out |-> Returned(plan.create)]

\* ---------------------------------------------------------------- requests

Procs == {"A", "B"}

IdleProc ==
  [pc |-> "idle", route |-> "", body |-> EmptyObj, plan |-> Throw(""), seen |-> <<>>,
   out |-> Thrown(""), before |-> EmptyDb, idx |-> 0, results |-> <<>>, resp |-> EmptyObj,
   raced |-> FALSE]

InFlight(q) == proc[q].pc \notin {"idle", "done"}

\* res.status(code).json({success: false, error})
ErrorResp(code, msg) == [code |-> code, success |-> FALSE, error |-> msg]

\* res.json({success: true, message, data})
DataResp(row) == [code |-> 200, success |-> TRUE, data |-> row]

IsWebhook(route) == route = "POST /whatsapp/webhook"

\* The webhook replies res.status(200).send('OK') whether processIncomingMessage
\* returned or threw; success tells which, as the handler's log does.
WebhookResp(ok) == [code |-> 200, success |-> ok, sent |-> "OK"]

IsBatch(route) == route \in {"POST /machines/batch", "POST /orders/batch"}

BatchOfMachines(route) == route = "POST /machines/batch"

ItemKey(route) == IF BatchOfMachines(route) THEN "machine_id" ELSE "order_id"

Items(route, body) == IF BatchOfMachines(route) THEN body.machines ELSE body.orders

\* results.push({success: true, machine: updated}) / ({success: true, order: updated})
ItemOk(route, row) ==
  IF BatchOfMachines(route) THEN [success |-> TRUE, machine |-> row]
  ELSE [success |-> TRUE, order |-> row]

\* results.push({success: false, machine_id, error}) / ({success: false, order_id, error})
ItemFail(route, id, msg) ==
  IF BatchOfMachines(route) THEN [success |-> FALSE, machine_id |-> id, error |-> msg]
  ELSE [success |-> FALSE, order_id |-> id, error |-> msg]

\* results.filter((r) => r.success).length
CountSuccess(results) == Cardinality({i \in 1..Len(results) : results[i].success})

\* results.filter((r) => !r.success).length
CountFailure(results) == Cardinality({i \in 1..Len(results) : ~results[i].success})

\* The batch controllers' reply: the counts of its message, and the results.
BatchResp(results) ==
  [code |-> 200, success |-> TRUE, succeeded |-> CountSuccess(results),
   failed |-> CountFailure(results), results |-> results]

\* A loop that stops at the first item.
AfterItemStop(idx) == idx + MaxBatch + 1

\* What the for loop does after an item: go on to the next one.
AfterItem(idx) == idx + 1

\* A request whose handler has run up to its first store call.
Started(p, route, body, plan) ==
  [IdleProc EXCEPT !.pc = IF plan.op = "create" THEN "write" ELSE "find",
                   !.route = route, !.body = body, !.plan = plan, !.before = db,
                   !.raced = \E q \in Procs \ {p} : InFlight(q)]

\* A request whose handler replied without a store call.
Replied(route, body, resp) ==
  [IdleProc EXCEPT !.pc = "done", !.route = route, !.body = body, !.before = db,
                   !.resp = resp]

\* Request p starts (or replies at once); the requests in flight now overlap it.
Enter(p, rec) ==
  proc' = [q \in Procs |->
             IF q = p THEN rec
             ELSE IF InFlight(q) /\ rec.pc # "done" THEN [proc[q] EXCEPT !.raced = TRUE]
             ELSE proc[q]]

\* The store has carried out, or given up, the call of request p, whose handler
\* waits at its await for the outcome out.
Answered(pr, out) == [pr EXCEPT !.pc = "answer", !.seen = <<>>, !.out = out]

\* A run of the seed script, which takes the place of a request.
IsSeed(route) == route = "npm run seed"

\* A service call of request p ends with outcome out: a single update replies,
\* a batch records the item's result and goes on.  The seed script goes on
\* with its next record, or exits with code 1 at the first call that fails.
Settle(pr, out) ==
  IF IsSeed(pr.route)
  THEN IF out.ok
       THEN [pr EXCEPT !.pc = "seed", !.idx = @ + 1, !.seen = <<>>, !.out = Thrown("")]
       ELSE [pr EXCEPT !.pc = "done", !.seen = <<>>, !.out = Thrown(""),
                       !.resp = [code |-> 1, success |-> FALSE, error |-> out.error]]
  ELSE IF IsBatch(pr.route)
  THEN [pr EXCEPT !.pc = "item", !.idx = AfterItem(@), !.seen = <<>>, !.out = Thrown(""),
                  !.results = Append(@, IF out.ok THEN ItemOk(pr.route, out.row)
                                        ELSE ItemFail(pr.route, pr.plan.key, out.error))]
  ELSE [pr EXCEPT !.pc = "done", !.seen = <<>>, !.out = Thrown(""),
                  !.resp = IF IsWebhook(pr.route) THEN WebhookResp(out.ok)
                           ELSE IF out.ok THEN DataResp(out.row)
                           ELSE ErrorResp(400, out.error)]

\* ------------------------------------------------------------------ actions

\* The readings of the clock in one run of a handler: the first is the time
\* the run begins at, and the clock does not go back.
Clock(r) == r[1] = now /\ r[1] <= r[2] /\ r[2] <= r[3]

\* The last reading a service call takes on its way to the store call: an
\* upsert of an order takes three, another upsert two, a create one.
LastReading(plan, r) ==
  IF plan.op = "create" THEN r[1] ELSE IF plan.table = "orders" THEN r[3] ELSE r[2]

\* A handler replies before its service reads the clock.
ReplyAtOnce(p, rec) == Enter(p, rec) /\ now' = now

\* A service call of request p: it throws before it reads the clock, or reaches
\* its store call at the time of its last reading.
Call(p, route, body, plan, r) ==
  IF plan.throws
  THEN ReplyAtOnce(p, Replied(route, body, IF IsWebhook(route) THEN WebhookResp(FALSE)
                                           ELSE ErrorResp(400, plan.error)))
  ELSE Enter(p, Started(p, route, body, plan)) /\ now' = LastReading(plan, r)

\* POST /machines/update with a JSON body.
ReqUpdateMachine(p, body, r) ==
  /\ proc[p].pc = "idle"
  /\ Clock(r)
  /\ LET parsedData == Without(body, "message") IN
     IF ~Truthy(parsedData, "machine_id")
     THEN ReplyAtOnce(p, Replied("POST /machines/update", body, ErrorResp(400, "machine_id is required")))
     ELSE Call(p, "POST /machines/update", body,
               updateMachine(parsedData.machine_id, parsedData, r), r)
  /\ UNCHANGED db

\* POST /machines/update with a message in its body, which
\* parseWhatsappMessage made whatsappData of.
ReqUpdateMachineMessage(p, body, whatsappData, r) ==
  LET route      == "POST /machines/update"
      isText     == Has(body.message, "str") /\ body.message.str # ""
      parsedData == IF isText THEN Spread(Without(body, "message"), whatsappData)
                    ELSE Without(body, "message")
  IN
  /\ proc[p].pc = "idle"
  /\ Clock(r)
  /\ IF isText /\ whatsappData = NullItem
     THEN ReplyAtOnce(p, Replied(route, body,
            ErrorResp(400, "Failed to parse WhatsApp message. Ensure format: \"M03 STATUS=Running OUTPUT=120\"")))
     ELSE IF ~Truthy(parsedData, "machine_id")
     THEN ReplyAtOnce(p, Replied(route, body, ErrorResp(400, "machine_id is required")))
     ELSE Call(p, route, body, updateMachine(parsedData.machine_id, parsedData, r), r)
  /\ UNCHANGED db

\* POST /safety/update
ReqUpdateSafetyArea(p, body, r) ==
  /\ proc[p].pc = "idle"
  /\ Clock(r)
  /\ IF ~Truthy(body, "area_name")
     THEN ReplyAtOnce(p, Replied("POST /safety/update", body, ErrorResp(400, "area_name is required")))
     ELSE Call(p, "POST /safety/update", body,
               updateSafetyArea(body.area_name, Without(body, "area_name"), r), r)
  /\ UNCHANGED db

\* POST /safety/log
ReqCreateSafetyLog(p, body, r) ==
  /\ proc[p].pc = "idle"
  /\ Clock(r)
  /\ Len(db.safety_logs) + Cardinality({q \in Procs : proc[q].plan.op = "create"}) < MaxLogs
  /\ IF ~Truthy(body, "area_name")
     THEN ReplyAtOnce(p, Replied("POST /safety/log", body, ErrorResp(400, "area_name is required")))
     ELSE Call(p, "POST /safety/log", body, createSafetyLog(body, r), r)
  /\ UNCHANGED db

\* POST /orders/update
ReqUpdateOrder(p, body, r) ==
  /\ proc[p].pc = "idle"
  /\ Clock(r)
  /\ IF ~Truthy(body, "order_id")
     THEN ReplyAtOnce(p, Replied("POST /orders/update", body, ErrorResp(400, "order_id is required")))
     ELSE Call(p, "POST /orders/update", body,
               updateOrder(body.order_id, Without(body, "order_id"), r), r)
  /\ UNCHANGED db

\* The parser that the intent selects, applied to the text.
ParsedFor(intent, text) ==
  IF intent = "MACHINE_UPDATE" THEN parseMachineUpdate(text)
  ELSE IF intent = "SAFETY_UPDATE" THEN parseSafetyUpdate(text)
  ELSE IF intent = "ORDER_UPDATE" THEN parseOrderUpdate(text)
  ELSE NullItem

\* processIncomingMessage from its switch on: the message text, its intent and
\* what the intent's parser made of it.
ProcessMessage(p, text, intent, parsed, r) ==
  LET route == "POST /whatsapp/webhook"
      body  == [text |-> text]
  IN
  /\ proc[p].pc = "idle"
  /\ Clock(r)
  /\ IF trim(text) = "" \/ parsed = NullItem
     THEN ReplyAtOnce(p, Replied(route, body, WebhookResp(TRUE)))
     ELSE IF intent = "MACHINE_UPDATE"
     THEN Call(p, route, body, updateMachine(parsed.machine_id, parsed, r), r)
     ELSE IF intent = "SAFETY_UPDATE"
     THEN Call(p, route, body, updateSafetyArea(parsed.area_name, parsed, r), r)
     ELSE Call(p, route, body, updateOrder(parsed.order_id, parsed, r), r)
  /\ UNCHANGED db

\* What detectIntent and the parser it selects make of a text.
Understand(text) ==
  [intent |-> detectIntent(Str(text)), parsed |-> ParsedFor(detectIntent(Str(text)), text)]

\* POST /whatsapp/webhook carrying one text message, understood as u.
ReqWebhook(p, text, u, r) == ProcessMessage(p, text, u.intent, u.parsed, r)

\* POST /whatsapp/test: the intent and the extraction of a message, no update.
ReqWhatsappTest(p, body) ==
  LET route == "POST /whatsapp/test" IN
  /\ proc[p].pc = "idle"
  /\ IF ~Has(body, "message") \/ body.message = Str("")
     THEN Enter(p, Replied(route, body, ErrorResp(400, "Message is required")))
     ELSE Enter(p, Replied(route, body,
                  [code |-> 200, success |-> TRUE, intent |-> detectIntent(body.message),
                   parsed |-> IF Has(body.message, "str")
                              THEN ParsedFor(detectIntent(body.message), body.message.str)
                              ELSE NullItem]))
  /\ UNCHANGED <<db, now>>

\* POST /machines/batch and POST /orders/batch: the field is an array when present.
ReqBatch(p, route, body) ==
  /\ proc[p].pc = "idle"
  /\ IF ~Has(body, IF BatchOfMachines(route) THEN "machines" ELSE "orders")
     THEN Enter(p, Replied(route, body,
                           ErrorResp(400, IF BatchOfMachines(route)
                                          THEN "Expected an array of machines in the \"machines\" field"
                                          ELSE "Expected an array of orders in the \"orders\" field")))
     ELSE Enter(p, [IdleProc EXCEPT !.pc = "item", !.route = route, !.body = body,
                                    !.before = db, !.idx = 1,
                                    !.raced = \E q \in Procs \ {p} : InFlight(q)])
  /\ UNCHANGED <<db, now>>

ReqBatchMachines(p, body) == ReqBatch(p, "POST /machines/batch", body)

ReqBatchOrders(p, body) == ReqBatch(p, "POST /orders/batch", body)

\* One turn of the batch services' for loop, up to the item's store call; after
\* the last item the controller replies.
BatchItem(p, r) ==
  LET pr    == proc[p]
      items == Items(pr.route, pr.body)
      keyf  == ItemKey(pr.route)
      item  == items[pr.idx]
      plan  == IF BatchOfMachines(pr.route) THEN updateMachine(item[keyf], item, r)
               ELSE updateOrder(item[keyf], item, r)
      calls == pr.idx <= Len(items) /\ item # NullItem /\ Truthy(item, keyf) /\ ~plan.throws
  IN
  /\ pr.pc = "item"
  /\ Clock(r)
  /\ now' = IF calls THEN LastReading(plan, r) ELSE now
  /\ proc' = [proc EXCEPT ![p] =
       IF pr.idx > Len(items)
       THEN [pr EXCEPT !.pc = "done", !.resp = BatchResp(pr.results)]
       ELSE IF item = NullItem
       THEN [pr EXCEPT !.pc = "done",
               !.resp = ErrorResp(500,
                          (IF BatchOfMachines(pr.route) THEN "Failed to batch update machines: "
                           ELSE "Failed to batch update orders: ")
                          \o "Cannot read properties of null (reading '" \o keyf \o "')")]
       ELSE IF ~Truthy(item, keyf)
       THEN [pr EXCEPT !.idx = AfterItem(@),
               !.results = Append(@, ItemFail(pr.route, OrElse(item, keyf, "unknown"),
                                              keyf \o " is required"))]
       ELSE IF plan.throws
       THEN [pr EXCEPT !.idx = AfterItem(@),
               !.results = Append(@, ItemFail(pr.route, item[keyf], plan.error))]
       ELSE [pr EXCEPT !.pc = "find", !.plan = plan]]
  /\ UNCHANGED db

\* The seed script starts: it builds its sample records, reading the clock for
\* each timestamp, and enters main().
SeedStart(p, r) ==
  /\ proc[p].pc = "idle"
  /\ r[1] = now
  /\ \A i \in 1..16 : r[i] <= r[i + 1]
  /\ Len(db.safety_logs) + 2 <= 2 * MaxLogs
  /\ Enter(p, [IdleProc EXCEPT !.pc = "seed", !.route = "npm run seed",
                               !.body = [calls |-> SeedCalls(r)], !.before = db, !.idx = 1,
                               !.raced = \E q \in Procs \ {p} : InFlight(q)])
  /\ now' = r[17]
  /\ UNCHANGED db

\* One turn of main()'s loops, up to the record's store call; after the last
\* record the script ends.
SeedMain(p) ==
  LET pr == proc[p] IN
  /\ pr.pc = "seed"
  /\ proc' = [proc EXCEPT ![p] =
       IF pr.idx > Len(pr.body.calls)
       THEN [pr EXCEPT !.pc = "done", !.resp = [code |-> 0, success |-> TRUE]]
       ELSE [pr EXCEPT !.pc = IF pr.body.calls[pr.idx].op = "create" THEN "write" ELSE "find",
                       !.plan = pr.body.calls[pr.idx]]]
  /\ UNCHANGED <<db, now>>

\* The SELECT of an upsert.
DbFind(p) ==
  /\ proc[p].pc = "find"
  /\ proc' = [proc EXCEPT ![p].pc = "write",
                          ![p].seen = SelectWhere(db[proc[p].plan.table],
                                                  proc[p].plan.keyField, proc[p].plan.key)]
  /\ UNCHANGED <<db, now>>

\* The UPDATE or INSERT of an upsert, or the INSERT of a create; the handler
\* that awaits the call has not resumed yet.
DbWrite(p) ==
  /\ proc[p].pc = "write"
  /\ LET plan == proc[p].plan
         w    == StoreWrite(db[plan.table], plan, proc[p].seen)
     IN /\ db' = [db EXCEPT ![plan.table] = w.rows]
        /\ proc' = [proc EXCEPT ![p] = Answered(proc[p], w.out)]
  /\ UNCHANGED now

\* The store cannot complete the call.
DbFail(p) ==
  /\ proc[p].pc \in {"find", "write"}
  /\ proc' = [proc EXCEPT ![p] = Answered(proc[p], Thrown(proc[p].plan.wrap \o StoreDownMsg))]
  /\ UNCHANGED <<db, now>>

\* The handler of request p resumes after its await with the store's answer:
\* the service returns the record or throws, and the controller replies (a
\* batch goes on with its loop).
Resume(p) ==
  /\ proc[p].pc = "answer"
  /\ proc' = [proc EXCEPT ![p] = Settle(proc[p], proc[p].out)]
  /\ UNCHANGED <<db, now>>

\* The client has its reply.
Ack(p) ==
  /\ proc[p].pc = "done"
  /\ proc' = [proc EXCEPT ![p] = IdleProc]
  /\ UNCHANGED <<db, now>>

Tick ==
  /\ now < MaxTime
  /\ now' = now + 1
  /\ UNCHANGED <<db, proc>>

Init ==
  /\ db = EmptyDb
  /\ now = 0
  /\ proc = [p \in Procs |-> IdleProc]

\* The store calls and the reply of the requests of P.
Serve(P) == \E p \in P : DbFind(p) \/ DbWrite(p) \/ DbFail(p) \/ Resume(p) \/ Ack(p)

\* The same while the store is reachable.
ServeUp(P) == \E p \in P : DbFind(p) \/ DbWrite(p) \/ Resume(p) \/ Ack(p)

\* ------------------------------------------------------------------ inputs

\* The readings of a handler that runs while the clock stands still, and those
\* of one during whose run the clock may move on.
Still == {<<now, now, now>>}

Moving == {r \in {<<now, t2, t3>> : t2, t3 \in now..MaxTime} : r[2] <= r[3]}

\* The objects with field f set to a value of Vals, and the one without it.
Opt(f, Vals) == {EmptyObj} \cup {[g \in {f} |-> v] : v \in Vals}

\* The objects with field f set to a value of Vals.
Req(f, Vals) == {[g \in {f} |-> v] : v \in Vals}

MachineBodies ==
  {Spread(Spread(Spread(Spread(k, s), o), e), w) :
     k \in Opt("machine_id", {"M01"}),
     s \in Opt("status", {"Running", "Idle", "Error", "Broken", "", Null}),
     o \in Opt("output", {0, 80, NullNum}),
     e \in Opt("error_message", {"Overheating", Null}),
     w \in Opt("operator", {"Arun"})}

\* Machine updates through the JSON route, one request at a time.
NextMachine ==
  \/ \E b \in MachineBodies : (\E r \in Still : ReqUpdateMachine("A", b, r))
  \/ Serve({"A"})

SpecMachine == Init /\ [][NextMachine]_vars

\* The requests of a run address the tables of one entity kind: no other
\* table holds a row.
Only(tables) == \A u \in DOMAIN db \ tables : db[u] = <<>>

SafetyTables == {"safety_areas", "safety_logs"}

\* Updates that set enum fields to canonical values, near-synonyms, other
\* spellings and the empty string.
EnumMachineBodies ==
  {Spread(k, s) : k \in Req("machine_id", {"M01"}),
                  s \in Opt("status", {"Running", "running", "Broken", ""})}

EnumAreaBodies ==
  {Spread(Spread(k, s), r) :
     k \in Req("area_name", {"Weld_Area"}),
     s \in Opt("status", {"Warning", "warning", ""}),
     r \in Opt("risk_level", {"High", "Severe", ""})}

EnumLogBodies ==
  {Spread(k, c) : k \in Req("area_name", {"Weld_Area"}),
                  c \in Opt("ppe_compliance", {"Partial", "partial", ""})}

EnumOrderBodies ==
  {Spread(Spread(Spread(k, g), s), r) :
     k \in Req("order_id", {"ORD1024"}),
     g \in Opt("stage", {"Packaging", "Packing", ""}),
     s \in Opt("status", {"OnHold", "onhold"}),
     r \in Opt("priority", {"Urgent", "urgent"})}

EnumMachine == Only({"machines"}) /\ \E b \in EnumMachineBodies :
    (\E r \in Still : ReqUpdateMachine("A", b, r))

EnumArea == Only(SafetyTables) /\ \E b \in EnumAreaBodies :
    (\E r \in Still : ReqUpdateSafetyArea("A", b, r))

EnumLog == Only(SafetyTables) /\ \E b \in EnumLogBodies :
    (\E r \in Still : ReqCreateSafetyLog("A", b, r))

EnumOrder == Only({"orders"}) /\ \E b \in EnumOrderBodies :
    (\E r \in Still : ReqUpdateOrder("A", b, r))

\* Updates of enum fields and safety logs, one request at a time.
NextEnum == EnumMachine \/ EnumArea \/ EnumLog \/ EnumOrder \/ ServeUp({"A"})

SpecEnum == Init /\ [][NextEnum]_vars

\* Updates of the three keyed entities with valid values.
MachineUpdates ==
  {Spread(Spread(Spread(Spread(k, s), o), e), w) :
     k \in Req("machine_id", {"M01"}),
     s \in Opt("status", {"Running", "Idle", "Error"}),
     o \in Opt("output", {80, NullNum}),
     e \in Opt("error_message", {"Overheating"}),
     w \in Opt("operator", {"Arun"})}

AreaUpdates ==
  {Spread(Spread(Spread(Spread(k, s), r), e), n) :
     k \in Req("area_name", {"Weld_Area"}),
     s \in Opt("status", {"Warning"}),
     r \in Opt("risk_level", {"High"}),
     e \in Opt("ppe_required", {"Goggles", ""}),
     n \in Opt("notes", {"Wet floor"})}

OrderUpdates ==
  {Spread(Spread(Spread(Spread(Spread(k, g), r), s), q), e) :
     k \in Req("order_id", {"ORD1024"}),
     g \in Opt("stage", {"Packaging"}),
     r \in Opt("priority", {"Urgent"}),
     s \in Opt("status", {"OnHold"}),
     q \in Opt("quantity", {200, NullNum}),
     e \in Opt("eta", {"Nov-18"})}

UpsertMachine == Only({"machines"}) /\ \E b \in MachineUpdates :
    (\E r \in Moving : ReqUpdateMachine("A", b, r))

UpsertArea == Only(SafetyTables) /\ \E b \in AreaUpdates :
    (\E r \in Moving : ReqUpdateSafetyArea("A", b, r))

UpsertOrder == Only({"orders"}) /\ \E b \in OrderUpdates :
    (\E r \in Moving : ReqUpdateOrder("A", b, r))

\* Upserts of the three keyed entities, one request at a time, as time passes.
Next == UpsertMachine \/ UpsertArea \/ UpsertOrder \/ ServeUp({"A"}) \/ Tick

Spec == Init /\ [][Next]_vars

\* Two clients update the same machine, area or order at the same time.
ConcMachineBodies ==
  {[machine_id |-> "M01", status |-> "Idle"], [machine_id |-> "M01", output |-> 80],
   [machine_id |-> "M01", operator |-> "Arun"]}

ConcAreaBodies ==
  {[area_name |-> "Weld_Area", status |-> "Warning"],
   [area_name |-> "Weld_Area", risk_level |-> "High"]}

ConcOrderBodies ==
  {[order_id |-> "ORD1024", stage |-> "Packaging"],
   [order_id |-> "ORD1024", priority |-> "Urgent"]}

ConcMachine ==
  Only({"machines"}) /\ \E p \in Procs, b \in ConcMachineBodies :
    (\E r \in Still : ReqUpdateMachine(p, b, r))

ConcArea ==
  Only(SafetyTables) /\ \E p \in Procs, b \in ConcAreaBodies :
    (\E r \in Still : ReqUpdateSafetyArea(p, b, r))

ConcOrder ==
  Only({"orders"}) /\ \E p \in Procs, b \in ConcOrderBodies :
    (\E r \in Still : ReqUpdateOrder(p, b, r))

NextConc == ConcMachine \/ ConcArea \/ ConcOrder \/ ServeUp(Procs)

SpecConc == Init /\ [][NextConc]_vars

\* The arrays of at most n elements of S.
Arrays(S, n) == UNION {[1..k -> S] : k \in 0..n}

\* Batch bodies: an array of machine or order updates, some without a key, some
\* with a value outside an enumeration, some null or not objects; or no array.
MachineItems ==
  {[machine_id |-> "M01", status |-> "Running"], [machine_id |-> "M02", status |-> "Broken"],
   [status |-> "Idle"], NullItem, PrimitiveItem}

OrderItems ==
  {[order_id |-> "ORD1024", stage |-> "Packaging"], [stage |-> "Cutting"],
   [order_id |-> "ORD1025", priority |-> "Urgent"], NullItem}

MachineBatches == {EmptyObj} \cup {[machines |-> a] : a \in Arrays(MachineItems, MaxBatch)}

OrderBatches == {EmptyObj} \cup {[orders |-> a] : a \in Arrays(OrderItems, MaxBatch)}

BatchMachines == Only({"machines"}) /\ \E b \in MachineBatches : ReqBatchMachines("A", b)

BatchOrders == Only({"orders"}) /\ \E b \in OrderBatches : ReqBatchOrders("A", b)

\* Batches, one at a time, over a store that may fail.
NextBatch == BatchMachines \/ BatchOrders \/ (\E r \in Still : BatchItem("A", r)) \/ Serve({"A"})

SpecBatch == Init /\ [][NextBatch]_vars

\* The texts made of at most n of the words of W, in every order.
RECURSIVE Phrases(_, _)
Phrases(W, n) ==
  IF n = 0 THEN {""} ELSE {""} \cup {w \o t : w \in W, t \in Phrases(W, n - 1)}

\* Messages for the classifier: machine codes, the keywords in both cases,
\* order codes, and what merely resembles them; and the documented formats.
IntentWords ==
  {"M03", "m1 ", " ", "\rM2 ", "M ", "SAFETY ", "Safety", "ORDER ", "order", "ORD1024", "ord7",
   "ORD ", "hello ", "Straße "}

FormatTexts ==
  {"M03 STATUS=Running OUTPUT=130 OPERATOR=Arun", "ORDER ORD1024 STAGE=Packaging ETA=Nov-18",
   "ORD1024 STAGE=Packaging ETA=Nov-18", "ORDER 1024", "order 77 QTY=5", "ORD1024",
   "Update ORDER: 1024", "SAFETY Weld PPE=Helmet,Gloves", "status of ord-7"}

TestBodies ==
  {EmptyObj, [message |-> NonText]}
    \cup {[message |-> Str(t)] : t \in Phrases(IntentWords, MaxWords) \cup FormatTexts}

TestText == \E b \in TestBodies : ReqWhatsappTest("A", b)

\* Messages put to POST /whatsapp/test.
NextIntent == TestText \/ Ack("A")

SpecIntent == Init /\ [][NextIntent]_vars

\* Text messages that reach the webhook: the documented formats, partial
\* updates, other spellings, and texts that name no entity.
MachineTexts ==
  {"M03 STATUS=Running OUTPUT=130 OPERATOR=Arun", "M03 STATUS=Error ERROR=Jam",
   "M03 OUTPUT=50 OPERATOR=Ravi", "m03 status: idle", "M03 STATUS=Down"}

SafetyTexts ==
  {"SAFETY Weld RISK=High STATUS=Warning", "SAFETY Weld NOTES=Wet floor",
   "SAFETY Weld PPE=Helmet,Gloves", "safety Weld risk: critical"}

OrderTexts ==
  {"ORD1024 STAGE=Packaging ETA=Nov-18", "ORD1024 STATUS=Completed",
   "ORD1024 STATUS=Cancelled QTY=5", "ORD1024 PRIORITY=High", "ORD1024 STATUS=OnHold"}

OtherTexts == {"hello", "   ", "SAFETY", "M"}

\* Each of these texts as the webhook understands it, worked out once.
Understood == [t \in MachineTexts \cup SafetyTexts \cup OrderTexts \cup OtherTexts |-> Understand(t)]

TextMachine == Only({"machines"}) /\ \E t \in MachineTexts :
    (\E r \in Still : ReqWebhook("A", t, Understood[t], r))

TextSafety == Only(SafetyTables) /\ \E t \in SafetyTexts :
    (\E r \in Still : ReqWebhook("A", t, Understood[t], r))

TextOrder == Only({"orders"}) /\ \E t \in OrderTexts :
    (\E r \in Still : ReqWebhook("A", t, Understood[t], r))

TextOther == \E t \in OtherTexts : (\E r \in Still : ReqWebhook("A", t, Understood[t], r))

\* An order is put on hold through POST /orders/update.
HoldOrder ==
  Only({"orders"}) /\
    (\E r \in Still : ReqUpdateOrder("A", [order_id |-> "ORD1024", status |-> "OnHold"], r))

\* Text messages, one at a time, as time passes.
NextText ==
  TextMachine \/ TextSafety \/ TextOrder \/ TextOther \/ HoldOrder \/ ServeUp({"A"}) \/ Tick

SpecText == Init /\ [][NextText]_vars

\* Updates that carry a last-modified timestamp of the caller's, and updates
\* that fail.
StampMachineBodies ==
  {[machine_id |-> "M01", status |-> "Running"],
   [machine_id |-> "M01", operator |-> "Arun", last_updated |-> 9],
   [machine_id |-> "M01", status |-> "Broken", last_updated |-> 9]}

StampAreaBodies ==
  {[area_name |-> "Weld_Area", status |-> "Warning"],
   [area_name |-> "Weld_Area", notes |-> "Wet floor", last_inspection |-> 9],
   [area_name |-> "Weld_Area", risk_level |-> "Severe", last_inspection |-> 9]}

StampOrderBodies ==
  {[order_id |-> "ORD1024", stage |-> "Packaging"],
   [order_id |-> "ORD1024", quantity |-> 200, updated_at |-> 9],
   [order_id |-> "ORD1024", priority |-> "Soon", updated_at |-> 9]}

StampMachine == Only({"machines"}) /\ \E b \in StampMachineBodies :
    (\E r \in Moving : ReqUpdateMachine("A", b, r))

StampArea == Only(SafetyTables) /\ \E b \in StampAreaBodies :
    (\E r \in Moving : ReqUpdateSafetyArea("A", b, r))

StampOrder == Only({"orders"}) /\ \E b \in StampOrderBodies :
    (\E r \in Moving : ReqUpdateOrder("A", b, r))

\* Updates as time passes, over a store that may fail.
NextStamp == StampMachine \/ StampArea \/ StampOrder \/ Serve({"A"}) \/ Tick

SpecStamp == Init /\ [][NextStamp]_vars

\* Two clients update machines M01 and M02 and an order, singly and in a batch.
KeysMachineBodies ==
  {[machine_id |-> "M01", status |-> "Running"], [machine_id |-> "M02", output |-> 80]}

KeysBatchBody ==
  [machines |-> <<[machine_id |-> "M01", operator |-> "Arun"],
                  [machine_id |-> "M02", status |-> "Idle"]>>]

KeysMachine == \E p \in Procs, b \in KeysMachineBodies :
    (\E r \in Still : ReqUpdateMachine(p, b, r))

KeysOrder == \E p \in Procs :
    (\E r \in Still : ReqUpdateOrder(p, [order_id |-> "ORD1024", stage |-> "Packaging"], r))

KeysBatch == ReqBatchMachines("A", KeysBatchBody)

KeysArea == \E p \in Procs :
    (\E r \in Still : ReqUpdateSafetyArea(p, [area_name |-> "Weld_Area", status |-> "Warning"], r))

NextKeys == KeysMachine \/ KeysOrder \/ KeysArea \/ KeysBatch \/
    (\E r \in Still : BatchItem("A", r)) \/ ServeUp(Procs)

SpecKeys == Init /\ [][NextKeys]_vars

\* Words for the stem normalizers: each stem alone, at the start of a word,
\* inside a word, in capitals, and words without a stem.
StatusWords ==
  {"run", "running", "RUNNING", "rerun", "idle", "Idle", "maintain", "maintenance",
   "error", "down", "breakdown", "shutdown", "offline", "Stopped"}

StageWords ==
  {"plan", "planning", "replan", "product", "production", "quality", "qc", "pack",
   "packing", "repack", "ship", "shipped", "complete", "done", "undone", "hold"}

WordTexts ==
  {"M01 STATUS=" \o w : w \in StatusWords} \cup {"ORD7 STAGE=" \o w : w \in StageWords}

TestWord == \E p \in Procs, t \in WordTexts : ReqWhatsappTest(p, [message |-> Str(t)])

\* Status and stage words put to POST /whatsapp/test by two clients.
NextWords == TestWord \/ Ack("A") \/ Ack("B")

SpecWords == Init /\ [][NextWords]_vars

\* Machine messages for the two extractors: the documented formats, ERROR
\* before and after the other labels, and texts without a machine code.
ExtractTexts ==
  {"M03 STATUS=Running OUTPUT=130 OPERATOR=Arun", "M01 STATUS=Error ERROR=Overheating detected",
   "M02 STATUS=Idle", "M01 STATUS=Error OPERATOR=Arun", "M01 ERROR=Jam STATUS=Error",
   "M01 ERROR=Jam OUTPUT=0", "M01 ERROR=Jam OPERATOR=Arun", "M02 OUTPUT=80",
   "hello", "STATUS=Running"}

\* Each text as the webhook understands it and as parseWhatsappMessage
\* extracts it, worked out once.
ExtractUnderstood == [t \in ExtractTexts |-> Understand(t)]

ExtractWhatsapp == [t \in ExtractTexts |-> parseWhatsappMessage(t)]

ExtractTest == \E t \in ExtractTexts : ReqWhatsappTest("A", [message |-> Str(t)])

ExtractWebhook == \E t \in ExtractTexts :
    (\E r \in Still : ReqWebhook("A", t, ExtractUnderstood[t], r))

ExtractDirect ==
  \E t \in ExtractTexts :
    (\E r \in Still : ReqUpdateMachineMessage("A", [message |-> Str(t)], ExtractWhatsapp[t], r))

\* Machine messages on the three routes that take them.
NextExtract == ExtractTest \/ ExtractWebhook \/ ExtractDirect \/ ServeUp({"A"})

SpecExtract == Init /\ [][NextExtract]_vars

\* Safety logs among the other operations: logs for an area, accepted and
\* rejected, updates of that area by JSON and by text, and a machine update.
LogBodies ==
  {[area_name |-> "Weld_Area", ppe_compliance |-> "Partial"],
   [area_name |-> "Weld_Area", description |-> "No gloves", reported_by |-> "Ravi"],
   [area_name |-> "Weld_Area", ppe_compliance |-> "partial"]}

LogAreaBodies ==
  {[area_name |-> "Weld_Area", status |-> "Warning"], [area_name |-> "Weld_Area", risk_level |-> "High"]}

LogSafetyText == "SAFETY Weld PPE=Helmet,Gloves"

LogCreate == \E b \in LogBodies : (\E r \in Still : ReqCreateSafetyLog("A", b, r))

LogArea == \E b \in LogAreaBodies : (\E r \in Still : ReqUpdateSafetyArea("A", b, r))

LogText == (\E r \in Still : ReqWebhook("A", LogSafetyText, Understood[LogSafetyText], r))

LogMachine ==
    (\E r \in Still : ReqUpdateMachine("A", [machine_id |-> "M01", status |-> "Running"], r))

NextLogs == LogCreate \/ LogArea \/ LogText \/ LogMachine \/ Serve({"A"})

SpecLogs == Init /\ [][NextLogs]_vars

\* Texts that name no entity: no keyword, a keyword without its key, and
\* labels alone; and texts that do name one.
NoKeyTexts ==
  {"hello", "   ", "SAFETY", "SAFETY !", "STATUS=Running", "Machine down",
   "ORDER STAGE=Packaging", "new order please"}

KeyedTexts == {"M01 STATUS=Running", "M01 OUTPUT=80", "SAFETY Weld RISK=High", "ORD1024 STAGE=Packaging"}

NoKeyUnderstood == [t \in NoKeyTexts \cup KeyedTexts |-> Understand(t)]

NoKeyWhatsapp == [t \in NoKeyTexts \cup KeyedTexts |-> parseWhatsappMessage(t)]

NoKeyWebhook == \E t \in NoKeyTexts \cup KeyedTexts :
    (\E r \in Still : ReqWebhook("A", t, NoKeyUnderstood[t], r))

NoKeyDirect ==
  \E t \in NoKeyTexts \cup KeyedTexts :
    (\E r \in Still : ReqUpdateMachineMessage("A", [message |-> Str(t)], NoKeyWhatsapp[t], r))

\* Texts with and without a key on the webhook and on POST /machines/update.
NextNoKey == NoKeyWebhook \/ NoKeyDirect \/ ServeUp({"A"})

SpecNoKey == Init /\ [][NextNoKey]_vars

\* Order messages that name the orders ORD1001 and ORD1002, with and without
\* the keyword ORDER.
OrderCodes == {"ORD1001", "ORD1002"}

CodeTexts ==
  {"ORDER ORD1001 STAGE=Production", "ORDER ORD1002 STAGE=Quality",
   "ORD1001 PRIORITY=High", "ORD1002 QTY=5"}

CodeUnderstood == [t \in CodeTexts |-> Understand(t)]

CodeWebhook == \E t \in CodeTexts : (\E r \in Still : ReqWebhook("A", t, CodeUnderstood[t], r))

\* Order messages, one at a time, as time passes.
NextCodes == CodeWebhook \/ ServeUp({"A"}) \/ Tick

SpecCodes == Init /\ [][NextCodes]_vars

\* Two clients update the same machine and the same order while time passes.
RaceMachineBodies ==
  {[machine_id |-> "M01", status |-> "Running"], [machine_id |-> "M01", output |-> 80]}

RaceOrderBodies ==
  {[order_id |-> "ORD1024", stage |-> "Packaging"], [order_id |-> "ORD1024", quantity |-> 200]}

RaceMachine == Only({"machines"}) /\ \E p \in Procs, b \in RaceMachineBodies :
    (\E r \in Moving : ReqUpdateMachine(p, b, r))

RaceOrder == Only({"orders"}) /\ \E p \in Procs, b \in RaceOrderBodies :
    (\E r \in Moving : ReqUpdateOrder(p, b, r))

NextRace == RaceMachine \/ RaceOrder \/ ServeUp(Procs) \/ Tick

SpecRace == Init /\ [][NextRace]_vars

\* The seed script runs, on the empty store and on a filled one, while a client
\* updates a machine that the script seeds, the clock standing still.
SeedMachineBodies ==
  {[machine_id |-> "M04", status |-> "Error"], [machine_id |-> "M04", output |-> 80]}

SeedReadings == {[i \in 1..17 |-> now]}

SeedRun == \E r \in SeedReadings : SeedStart("A", r)

SeedClient == \E b \in SeedMachineBodies, r \in Still : ReqUpdateMachine("B", b, r)

NextSeed == SeedRun \/ SeedMain("A") \/ SeedClient \/ ServeUp(Procs)

SpecSeed == Init /\ [][NextSeed]_vars

\* ------------------------------------------------------------------- claims

\* The reply of a finished single update that the store carried out.
Succeeded(pr) == pr.pc = "done" /\ pr.resp.success

\* C1: every stored machine in status Error has a non-empty error description,
\* and every stored machine in any other status has none.
C1_ErrorDescriptionMatchesStatus ==
  \A i \in 1..Len(db.machines) :
    LET m == db.machines[i] IN
    /\ m.status = "Error" => m.error_message \notin {Null, ""}
    /\ m.status # "Error" => m.error_message = Null

\* C2: every stored machine in status Idle has output 0.
C2_IdleOutputIsZero ==
  \A i \in 1..Len(db.machines) :
    db.machines[i].status = "Idle" => db.machines[i].output = 0

\* The enum fields a route's body may set, each with its enumeration.
EnumFields(route) ==
  IF route = "POST /machines/update" THEN <<<<"status", VALID_STATUSES>>>>
  ELSE IF route = "POST /safety/update"
  THEN <<<<"status", SAFETY_VALID_STATUSES>>, <<"risk_level", VALID_RISK_LEVELS>>>>
  ELSE IF route = "POST /safety/log" THEN <<<<"ppe_compliance", VALID_PPE_COMPLIANCE>>>>
  ELSE IF route = "POST /orders/update"
  THEN <<<<"stage", VALID_STAGES>>, <<"status", ORDER_VALID_STATUSES>>,
         <<"priority", VALID_PRIORITIES>>>>
  ELSE <<>>

\* The enum fields that body sets to a value outside their enumeration.
Offending(route, body) ==
  {i \in 1..Len(EnumFields(route)) :
     /\ Has(body, EnumFields(route)[i][1])
     /\ ~Includes(EnumFields(route)[i][2], body[EnumFields(route)[i][1]])}

\* msg names the field and every allowed value.
Names(msg, field, allowed) ==
  Contains(msg, field) /\ \A j \in 1..Len(allowed) : Contains(msg, allowed[j])

\* C3: every enum field of every stored record holds a canonical value.
C3_EnumFieldsCanonical ==
  /\ \A i \in 1..Len(db.machines) : Includes(VALID_STATUSES, db.machines[i].status)
  /\ \A i \in 1..Len(db.safety_areas) :
       /\ Includes(SAFETY_VALID_STATUSES, db.safety_areas[i].status)
       /\ Includes(VALID_RISK_LEVELS, db.safety_areas[i].risk_level)
  /\ \A i \in 1..Len(db.orders) :
       /\ Includes(VALID_STAGES, db.orders[i].stage)
       /\ Includes(VALID_PRIORITIES, db.orders[i].priority)
       /\ Includes(ORDER_VALID_STATUSES, db.orders[i].status)
  /\ \A i \in 1..Len(db.safety_logs) :
       Includes(VALID_PPE_COMPLIANCE, db.safety_logs[i].ppe_compliance)

\* C9: a finished update whose body set an enum field to a value outside its
\* enumeration failed with an error naming such a field and its allowed values,
\* and left the store as it found it.
C9_BadEnumRejected ==
  \A p \in Procs :
    LET pr == proc[p] IN
    (pr.pc = "done" /\ Offending(pr.route, pr.body) # {}) =>
      /\ ~pr.resp.success
      /\ \E i \in Offending(pr.route, pr.body) :
           Names(pr.resp.error, EnumFields(pr.route)[i][1], EnumFields(pr.route)[i][2])
      /\ db = pr.before

\* The last-modified column of a table.
StampColumn(table) ==
  IF table = "machines" THEN "last_updated"
  ELSE IF table = "safety_areas" THEN "last_inspection"
  ELSE "updated_at"

\* Request p is a finished single upsert that the store carried out.
Upserted(p) ==
  /\ Succeeded(proc[p])
  /\ ~IsBatch(proc[p].route)
  /\ proc[p].plan.op = "upsert"

\* The rows of request p's key when it started, and now.
RowsBefore(p) ==
  SelectWhere(proc[p].before[proc[p].plan.table], proc[p].plan.keyField, proc[p].plan.key)

RowsNow(p) == SelectWhere(db[proc[p].plan.table], proc[p].plan.keyField, proc[p].plan.key)

\* The columns that request p's update of an existing record may change besides
\* those of its body: the timestamp, and a machine's error description when
\* the body sets status Error without a non-empty description.
AlsoWritten(p) ==
  {StampColumn(proc[p].plan.table)} \cup
  (IF /\ proc[p].plan.table = "machines"
      /\ Has(proc[p].body, "status") /\ proc[p].body.status = "Error"
      /\ ~Truthy(proc[p].body, "error_message")
   THEN {"error_message"} ELSE {})

\* C4 as stated: an upsert on an existing key changes no field but those of its
\* body and the last-modified timestamp.
C4_OnlySuppliedAndStampChange ==
  \A p \in Procs :
    (Upserted(p) /\ ~proc[p].raced /\ RowsBefore(p) # <<>>) =>
      \A c \in DOMAIN RowsBefore(p)[1] :
        c \notin DOMAIN proc[p].body \cup {StampColumn(proc[p].plan.table)} =>
          RowsNow(p)[1][c] = RowsBefore(p)[1][c]

\* C4, amended: an upsert on an existing key changes no field but those of its
\* body, the last-modified timestamp and, for a machine update that sets status
\* Error without a non-empty error description, the error description, which
\* becomes the default one.
C4_MergeKeepsUnsuppliedFields ==
  \A p \in Procs :
    (Upserted(p) /\ ~proc[p].raced /\ RowsBefore(p) # <<>>) =>
      /\ \A c \in DOMAIN RowsBefore(p)[1] :
           c \notin DOMAIN proc[p].body \cup AlsoWritten(p) =>
             RowsNow(p)[1][c] = RowsBefore(p)[1][c]
      /\ "error_message" \in AlsoWritten(p) =>
           RowsNow(p)[1].error_message = "Machine error detected"

\* A status-only update of a machine with output 80 and operator Arun went
\* through, at a later time than the record's last update.
C4_Witness ==
  /\ Upserted("A")
  /\ proc["A"].body = [machine_id |-> "M01", status |-> "Running"]
  /\ RowsBefore("A") # <<>>
  /\ RowsBefore("A")[1].output = 80
  /\ RowsBefore("A")[1].operator = "Arun"
  /\ RowsBefore("A")[1].status # "Running"
  /\ RowsNow("A")[1].status = "Running"
  /\ RowsNow("A")[1].last_updated > RowsBefore("A")[1].last_updated

\* The defaults of a new record.
Defaults(table) ==
  IF table = "machines" THEN [status |-> "Idle", output |-> 0]
  ELSE IF table = "safety_areas"
  THEN [risk_level |-> "Medium", status |-> "Safe", ppe_required |-> "Helmet,Gloves,Safety Shoes"]
  ELSE [stage |-> "Planning", priority |-> "Medium", status |-> "Active", quantity |-> 0]

\* body gives field c a value (an empty string or null gives none).
Gives(body, c) ==
  /\ Has(body, c)
  /\ IF c \in {"output", "quantity"} THEN body[c] # NullNum ELSE Truthy(body, c)

\* The update as the service validates it.
Validated(table, body) == IF table = "machines" THEN applyStatusValidation(body) ELSE body

\* C10: the record created by the first successful update of a key has, in every
\* field with a default, the default when the update gives the field no value
\* and the update's validated value when it gives one.
C10_CreationDefaults ==
  \A p \in Procs :
    (Upserted(p) /\ ~proc[p].raced /\ RowsBefore(p) = <<>>) =>
      /\ Len(RowsNow(p)) = 1
      /\ \A c \in DOMAIN Defaults(proc[p].plan.table) :
           RowsNow(p)[1][c] =
             IF Gives(proc[p].body, c)
             THEN Validated(proc[p].plan.table, proc[p].body)[c]
             ELSE Defaults(proc[p].plan.table)[c]

\* An order was created from an update that names a stage and nothing else.
C10_Witness ==
  /\ Upserted("A")
  /\ RowsBefore("A") = <<>>
  /\ proc["A"].body = [order_id |-> "ORD1024", stage |-> "Packaging"]
  /\ RowsNow("A")[1].stage = "Packaging"
  /\ RowsNow("A")[1].priority = "Medium"
  /\ RowsNow("A")[1].status = "Active"
  /\ RowsNow("A")[1].quantity = 0

\* The columns request p's update writes besides the key and the timestamp.
Written(p) ==
  DOMAIN proc[p].plan.update \ {proc[p].plan.keyField, StampColumn(proc[p].plan.table)}

\* Requests p and q are finished updates of one existing record that
\* overlapped in time and wrote different columns.
Concurrent(p, q) ==
  /\ p # q
  /\ Upserted(p) /\ Upserted(q)
  /\ proc[p].raced /\ proc[q].raced
  /\ proc[p].plan.table = proc[q].plan.table
  /\ proc[p].plan.key = proc[q].plan.key
  /\ RowsBefore(p) # <<>> /\ RowsBefore(q) # <<>>
  /\ Written(p) \cap Written(q) = {}

\* C5: after two overlapping updates of one existing record that wrote
\* different columns, the record holds what each of them wrote.
C5_ConcurrentChangesBothKept ==
  \A p, q \in Procs :
    Concurrent(p, q) =>
      \A c \in Written(p) : RowsNow(p)[1][c] = proc[p].plan.update[c]

\* Two overlapping updates of machine M01, one of its status and one of its
\* operator, both went through, and the first to write differs from what the
\* second had read.
C5_Witness ==
  /\ Concurrent("A", "B")
  /\ proc["A"].body = [machine_id |-> "M01", status |-> "Idle"]
  /\ proc["B"].body = [machine_id |-> "M01", operator |-> "Arun"]
  /\ RowsBefore("A")[1].operator = Null
  /\ RowsNow("A")[1].operator = "Arun"
  /\ RowsNow("A")[1].status = "Idle"

\* C6: no table holds two records with the same business key.
C6_OneRecordPerKey ==
  /\ \A i, j \in 1..Len(db.machines) :
       db.machines[i].machine_id = db.machines[j].machine_id => i = j
  /\ \A i, j \in 1..Len(db.safety_areas) :
       db.safety_areas[i].area_name = db.safety_areas[j].area_name => i = j
  /\ \A i, j \in 1..Len(db.orders) :
       db.orders[i].order_id = db.orders[j].order_id => i = j

\* Two overlapping first updates of order ORD1024 both found no record; one
\* created it and the other was refused by the unique index.
C6_Witness ==
  /\ proc["A"].pc = "done" /\ proc["B"].pc = "done"
  /\ proc["A"].raced /\ proc["B"].raced
  /\ proc["A"].before.orders = <<>> /\ proc["B"].before.orders = <<>>
  /\ proc["A"].resp.success
  /\ ~proc["B"].resp.success
  /\ Contains(proc["B"].resp.error, UniqueMsg("orders", "order_id"))
  /\ Len(db.orders) = 1

\* Request p is a finished batch whose body held an array.
BatchDone(p) ==
  /\ proc[p].pc = "done"
  /\ IsBatch(proc[p].route)
  /\ Has(proc[p].body, IF BatchOfMachines(proc[p].route) THEN "machines" ELSE "orders")

\* Every element of items is an object.
ObjectsOnly(items) == \A i \in 1..Len(items) : items[i] \notin {NullItem, PrimitiveItem}

\* Outcome out is the outcome of item: a failure asking for the key when the
\* item has none, and otherwise a success with the record of the item's key,
\* which the store holds, or a failure that names the item's key.
OutcomeOf(route, item, out) ==
  LET keyf == ItemKey(route) IN
  IF ~Truthy(item, keyf)
  THEN ~out.success /\ out.error = keyf \o " is required"
  ELSE IF out.success
  THEN /\ Offending(IF BatchOfMachines(route) THEN "POST /machines/update"
                    ELSE "POST /orders/update", item) = {}
       /\ (IF BatchOfMachines(route) THEN out.machine ELSE out.order)[keyf] = item[keyf]
       /\ SelectWhere(db[IF BatchOfMachines(route) THEN "machines" ELSE "orders"],
                      keyf, item[keyf]) # <<>>
  ELSE out[keyf] = item[keyf] /\ out.error # ""

\* C7: a finished batch over an array of objects replied with one outcome per
\* item, the i-th being the outcome of the i-th item, and with counts of
\* successes and failures that add up to the number of items.
C7_BatchOneOutcomePerItem ==
  \A p \in Procs :
    LET items == Items(proc[p].route, proc[p].body)
        resp  == proc[p].resp
    IN (BatchDone(p) /\ ObjectsOnly(items)) =>
         /\ resp.code = 200 /\ Has(resp, "results")
         /\ Len(resp.results) = Len(items)
         /\ \A i \in 1..Len(items) : OutcomeOf(proc[p].route, items[i], resp.results[i])
         /\ resp.succeeded = CountSuccess(resp.results)
         /\ resp.failed = CountFailure(resp.results)
         /\ resp.succeeded + resp.failed = Len(items)

\* A batch of three order updates whose second has no order id replied
\* success, failure, success and 2 succeeded, 1 failed.
C7_Witness ==
  /\ BatchDone("A")
  /\ proc["A"].route = "POST /orders/batch"
  /\ proc["A"].body.orders =
       <<[order_id |-> "ORD1024", stage |-> "Packaging"], [stage |-> "Cutting"],
         [order_id |-> "ORD1025", priority |-> "Urgent"]>>
  /\ Len(proc["A"].resp.results) = 3
  /\ proc["A"].resp.results[1].success
  /\ ~proc["A"].resp.results[2].success
  /\ proc["A"].resp.results[3].success
  /\ proc["A"].resp.succeeded = 2
  /\ proc["A"].resp.failed = 1

\* C8: a finished batch over an array, whatever its elements, replied with a
\* list of one outcome per element.
C8_BatchNeverFailsAsWhole ==
  \A p \in Procs :
    BatchDone(p) =>
      /\ proc[p].resp.success
      /\ Has(proc[p].resp, "results")
      /\ Len(proc[p].resp.results) = Len(Items(proc[p].route, proc[p].body))

\* Request p is a finished POST /whatsapp/test that was given a message.
Tested(p) ==
  /\ proc[p].pc = "done"
  /\ proc[p].route = "POST /whatsapp/test"
  /\ proc[p].resp.code = 200

\* Text t, in capitals, has word w somewhere.
Mentions(t, w) == \E i \in 1..Len(t) : StartsWith(SubSeq(t, i, Len(t)), w)

\* Text t begins, after its leading spaces, with M or m and a digit.
BeginsWithMachineCode(t) ==
  \E i \in 1..Len(t) :
    /\ \A j \in 1..(i - 1) : IsSpace(Ch(t, j))
    /\ Ch(t, i) \in {"M", "m"}
    /\ IsDigit(Ch(t, i + 1))

\* Text t, in capitals, has ORD and a digit right after it.
MentionsOrdDigits(t) ==
  \E d \in 0..9 : Mentions(t, "ORD" \o ToString(d))

\* The intent that the ordered decision list gives a message.
DecisionList(message) ==
  IF ~Has(message, "str") \/ message.str = "" THEN "UNKNOWN"
  ELSE IF BeginsWithMachineCode(message.str) THEN "MACHINE_UPDATE"
  ELSE IF Mentions(toUpperCase(message.str), "SAFETY") THEN "SAFETY_UPDATE"
  ELSE IF \/ Mentions(toUpperCase(message.str), "ORDER")
          \/ MentionsOrdDigits(toUpperCase(message.str))
  THEN "ORDER_UPDATE"
  ELSE "UNKNOWN"

\* C15: the intent reported for a message is the one the ordered decision list
\* gives it: machine code first, then SAFETY, then ORDER or ORD+digits, else
\* unknown; and the empty text and a value that is no text are unknown.
C15_DetectIntentDecisionList ==
  /\ detectIntent(Str("")) = "UNKNOWN"
  /\ detectIntent(NonText) = "UNKNOWN"
  /\ detectIntent(NullItem) = "UNKNOWN"
  /\ \A p \in Procs :
       Tested(p) => proc[p].resp.intent = DecisionList(proc[p].body.message)

\* A message that starts with a machine code and also has the SAFETY keyword
\* was classified as a machine update.
C15_Witness ==
  /\ Tested("A")
  /\ proc["A"].body.message = Str("M03SAFETY ")
  /\ proc["A"].resp.intent = "MACHINE_UPDATE"

\* C18: the documented order message is extracted as exactly its order code,
\* stage and ETA.
C18_OrderFormatExtraction ==
  \A p \in Procs :
    (Tested(p) /\ proc[p].body.message = Str("ORDER ORD1024 STAGE=Packaging ETA=Nov-18")) =>
      /\ proc[p].resp.intent = "ORDER_UPDATE"
      /\ proc[p].resp.parsed = [order_id |-> "ORD1024", stage |-> "Packaging", eta |-> "Nov-18"]

\* The token that follows the word ORDER at the head of text t, in capitals,
\* and "" when t does not begin with the word ORDER and a token.
TokenAfterOrder(t) ==
  IF WordAt(t, 1, "ORDER") /\ IsSpace(Ch(t, 6)) /\ IsAlnum(Ch(t, SkipSpaces(t, 6)))
  THEN toUpperCase(SubSeq(t, SkipSpaces(t, 6), AlnumEnd(t, SkipSpaces(t, 6))))
  ELSE ""

\* C20: a message that begins with the word ORDER and an alphanumeric token T is
\* extracted with order code T, prefixed with ORD unless T begins with ORD.
C20_OrderCodeAfterOrderWord ==
  \A p \in Procs :
    (/\ Tested(p)
     /\ Has(proc[p].body.message, "str")
     /\ TokenAfterOrder(proc[p].body.message.str) # "") =>
      LET T == TokenAfterOrder(proc[p].body.message.str) IN
      /\ proc[p].resp.parsed # NullItem
      /\ proc[p].resp.parsed.order_id = IF StartsWith(T, "ORD") THEN T ELSE "ORD" \o T

\* Request p is a finished text message that led to an upsert which the store
\* carried out.
TextUpserted(p) == IsWebhook(proc[p].route) /\ Upserted(p)

\* C11: an order text message without STATUS, processed against an existing
\* order that is OnHold, Completed or Cancelled, leaves the order's status as
\* it was.
C11_OrderTextKeepsStatus ==
  \A p \in Procs :
    (/\ TextUpserted(p)
     /\ proc[p].plan.table = "orders"
     /\ ~Mentions(toUpperCase(proc[p].body.text), "STATUS")
     /\ RowsBefore(p) # <<>>
     /\ RowsBefore(p)[1].status \in {"OnHold", "Completed", "Cancelled"}) =>
      RowsNow(p)[1].status = RowsBefore(p)[1].status

\* C12: a safety text message with neither RISK nor STATUS, processed against
\* an existing safety area, leaves the area's risk level and status as they
\* were.
C12_SafetyTextKeepsRiskAndStatus ==
  \A p \in Procs :
    (/\ TextUpserted(p)
     /\ proc[p].plan.table = "safety_areas"
     /\ ~Mentions(toUpperCase(proc[p].body.text), "RISK")
     /\ ~Mentions(toUpperCase(proc[p].body.text), "STATUS")
     /\ RowsBefore(p) # <<>>) =>
      /\ RowsNow(p)[1].risk_level = RowsBefore(p)[1].risk_level
      /\ RowsNow(p)[1].status = RowsBefore(p)[1].status

\* The documented machine message.
MachineFormat == "M03 STATUS=Running OUTPUT=130 OPERATOR=Arun"

\* The fields the documented machine message stands for.
MachineFormatFields ==
  [machine_id |-> "M03", status |-> "Running", output |-> 130, operator |-> "Arun"]

\* What the classifier, the machine parser and the validator make of it.
MachineFormatUnderstood ==
  [intent    |-> detectIntent(Str(MachineFormat)),
   parsed    |-> parseMachineUpdate(MachineFormat),
   validated |-> applyStatusValidation(parseMachineUpdate(MachineFormat))]

\* C19: the documented machine message is a machine update, is extracted as
\* its four fields, passes validation unchanged, and once processed leaves
\* machine M03 with those values and the time of the update, whether or not
\* M03 existed.
C19_MachineFormatEndToEnd ==
  /\ MachineFormatUnderstood.intent = "MACHINE_UPDATE"
  /\ MachineFormatUnderstood.parsed = MachineFormatFields
  /\ MachineFormatUnderstood.validated = MachineFormatFields
  /\ \A p \in Procs :
       (TextUpserted(p) /\ proc[p].body.text = MachineFormat) =>
         /\ Len(RowsNow(p)) = 1
         /\ \A c \in DOMAIN MachineFormatFields : RowsNow(p)[1][c] = MachineFormatFields[c]
         /\ RowsNow(p)[1].last_updated = proc[p].plan.update.last_updated
         /\ RowsNow(p)[1].last_updated <= now
         /\ RowsBefore(p) # <<>> =>
              RowsNow(p)[1].last_updated >= RowsBefore(p)[1].last_updated

\* The documented machine message was processed at a later time against an M03
\* that was in status Error with another output and no operator.
C19_Witness ==
  /\ TextUpserted("A")
  /\ proc["A"].body.text = MachineFormat
  /\ RowsBefore("A") # <<>>
  /\ RowsBefore("A")[1].status = "Error"
  /\ RowsBefore("A")[1].operator = Null
  /\ RowsNow("A")[1].status = "Running"
  /\ RowsNow("A")[1].output = 130
  /\ RowsNow("A")[1].operator = "Arun"
  /\ RowsNow("A")[1].last_updated > RowsBefore("A")[1].last_updated

\* The machine update of request p as validated, for a request that passed
\* validation.
ValidatedUpdate(p) == Without(proc[p].plan.update, "last_updated")

\* Request p is a machine update that passed validation.
PassedValidation(p) ==
  /\ proc[p].route = "POST /machines/update"
  /\ proc[p].plan.op = "upsert"

\* C16: a validated machine update with status Error has a non-empty error
\* description, and one with any other status has none.
C16_ValidatedErrorDescription ==
  \A p \in Procs :
    (PassedValidation(p) /\ Has(ValidatedUpdate(p), "status")) =>
      IF ValidatedUpdate(p).status = "Error"
      THEN Truthy(ValidatedUpdate(p), "error_message")
      ELSE ~Truthy(ValidatedUpdate(p), "error_message")

\* C17: a validated machine update with status Idle has output 0.
C17_ValidatedIdleOutputZero ==
  \A p \in Procs :
    (/\ PassedValidation(p)
     /\ Has(ValidatedUpdate(p), "status")
     /\ ValidatedUpdate(p).status = "Idle") =>
      /\ Has(ValidatedUpdate(p), "output")
      /\ ValidatedUpdate(p).output = 0

\* Request p is a finished single update of a machine, an area or an order
\* that got as far as the service.
Updated(p) ==
  /\ proc[p].pc = "done"
  /\ proc[p].route \in {"POST /machines/update", "POST /safety/update", "POST /orders/update"}

\* C13: after a successful update the record's last-modified timestamp is the
\* clock reading that the update took for it (one reading for the record it
\* merges into, a later one for the record it creates), which is none of the
\* caller's; after a failed update the store is as it was.
C13_StampIsTimeOfUpdate ==
  \A p \in Procs :
    Updated(p) =>
      IF proc[p].resp.success
      THEN LET stamp == StampColumn(proc[p].plan.table) IN
           /\ RowsNow(p)[1][stamp] = IF RowsBefore(p) # <<>> THEN proc[p].plan.update[stamp]
                                     ELSE proc[p].plan.create[stamp]
           /\ RowsNow(p)[1][stamp] \in 0..now
           /\ RowsBefore(p) # <<>> => RowsNow(p)[1][stamp] >= RowsBefore(p)[1][stamp]
      ELSE db = proc[p].before

\* An update of an existing order that carried a timestamp of the caller's
\* went through at a later time than the order's last update.
C13_Witness ==
  /\ Updated("A")
  /\ proc["A"].resp.success
  /\ Has(proc["A"].body, "updated_at")
  /\ RowsBefore("A") # <<>>
  /\ RowsNow("A")[1].quantity = 200
  /\ RowsNow("A")[1].updated_at > RowsBefore("A")[1].updated_at
  /\ RowsNow("A")[1].updated_at # proc["A"].body.updated_at

\* C14: a step changes a stored record only if it is the write of a request
\* for that record's table and key, adds only a record of the writer's key,
\* and removes none.
C14_OtherKeysUnchanged ==
  [][\A tb \in DOMAIN db :
       /\ Len(db'[tb]) >= Len(db[tb])
       /\ \A i \in 1..Len(db'[tb]) :
            (i > Len(db[tb]) \/ db'[tb][i] # db[tb][i]) =>
              \E p \in Procs :
                /\ proc[p].pc = "write" /\ proc'[p].pc # "write"
                /\ proc[p].plan.table = tb
                /\ db'[tb][i][proc[p].plan.keyField] = proc[p].plan.key
                /\ i <= Len(db[tb]) => db[tb][i][proc[p].plan.keyField] = proc[p].plan.key]_vars

\* Overlapping updates of the existing machines M01 and M02 both went through,
\* one of them an item of a batch, while an order was stored.
C14_Witness ==
  /\ proc["A"].pc = "done" /\ IsBatch(proc["A"].route)
  /\ proc["A"].resp.succeeded = 2
  /\ Upserted("B") /\ proc["B"].raced
  /\ proc["B"].plan.key = "M02"
  /\ RowsBefore("B") # <<>>
  /\ RowsNow("B")[1].output = 80
  /\ RowsNow("B")[1].status = "Idle"
  /\ SelectWhere(db.machines, "machine_id", "M01")[1].operator = "Arun"
  /\ Len(db.orders) = 1

\* The machine status that the stems give word w: the first stem that w has,
\* in any case and at any place, and w in title case when it has none.
StatusByStem(w) ==
  LET l == toLowerCase(w) IN
  IF Contains(l, "run") THEN "Running"
  ELSE IF Contains(l, "idle") THEN "Idle"
  ELSE IF Contains(l, "maintain") THEN "Maintenance"
  ELSE IF Contains(l, "error") \/ Contains(l, "down") THEN "Error"
  ELSE Capitalize(w)

\* The order stage that the stems give word w.
StageByStem(w) ==
  LET l == toLowerCase(w) IN
  IF Contains(l, "plan") THEN "Planning"
  ELSE IF Contains(l, "product") THEN "Production"
  ELSE IF Contains(l, "quality") \/ Contains(l, "qc") THEN "Quality"
  ELSE IF Contains(l, "pack") THEN "Packaging"
  ELSE IF Contains(l, "ship") THEN "Shipping"
  ELSE IF Contains(l, "complete") \/ Contains(l, "done") THEN "Completed"
  ELSE Capitalize(w)

\* C21: the status or stage extracted from a text is the canonical value of
\* the first stem that the captured word contains, in any case and at any
\* place of the word, and the word in title case when it contains no stem.
C21_StemsGiveCanonicalValue ==
  \A p \in Procs :
    Tested(p) =>
      /\ \A w \in StatusWords :
           proc[p].body.message = Str("M01 STATUS=" \o w) =>
             proc[p].resp.parsed.status = StatusByStem(w)
      /\ \A w \in StageWords :
           proc[p].body.message = Str("ORD7 STAGE=" \o w) =>
             proc[p].resp.parsed.stage = StageByStem(w)

\* The allowed values of the closed enumerations of a table's text updates.
AllowedWords(table) ==
  IF table = "orders"
  THEN [status |-> ORDER_VALID_STATUSES, priority |-> VALID_PRIORITIES]
  ELSE [status |-> SAFETY_VALID_STATUSES, risk_level |-> VALID_RISK_LEVELS]

\* C22: a safety or order text message whose risk, priority and status words
\* are allowed values in some case is not rejected, and the record it writes
\* has the canonical spelling of each.
C22_AllowedWordsAreCanonical ==
  \A p \in Procs :
    (/\ proc[p].pc = "done"
     /\ IsWebhook(proc[p].route)
     /\ proc[p].body.text \in SafetyTexts \cup OrderTexts) =>
      /\ proc[p].resp.success
      /\ \A f \in DOMAIN AllowedWords(proc[p].plan.table) :
           Includes(AllowedWords(proc[p].plan.table)[f], RowsNow(p)[1][f])

\* C23: the machine extractor gives "M01 STATUS=Error ERROR=Overheating
\* detected" the error description "Overheating detected", and gives
\* "M01 STATUS=Error OPERATOR=Arun" none.
C23_ErrorFieldExtraction ==
  \A p \in Procs :
    Tested(p) =>
      /\ proc[p].body.message = Str("M01 STATUS=Error ERROR=Overheating detected") =>
           /\ Has(proc[p].resp.parsed, "error_message")
           /\ proc[p].resp.parsed.error_message = "Overheating detected"
      /\ proc[p].body.message = Str("M01 STATUS=Error OPERATOR=Arun") =>
           ~Has(proc[p].resp.parsed, "error_message")

\* Request p is a POST /machines/update with a message that led to a store call.
DirectText(p) ==
  /\ proc[p].route = "POST /machines/update"
  /\ proc[p].plan.op = "upsert"
  /\ Has(proc[p].body, "message")

\* C30: a message sent to POST /machines/update leads to the machine update
\* that the webhook's extractor gives for the same text.
C30_ExtractorsAgree ==
  \A p \in Procs :
    DirectText(p) =>
      LET parsed == ExtractUnderstood[proc[p].body.message.str].parsed IN
      /\ parsed # NullItem
      /\ proc[p].plan.key = parsed.machine_id
      /\ ValidatedUpdate(p) = applyStatusValidation(parsed)

\* Request p is a createSafetyLog whose store call succeeds in this step.
LogWritten(p) ==
  /\ proc[p].route = "POST /safety/log"
  /\ proc[p].pc = "write"
  /\ proc'[p].pc = "answer"
  /\ proc'[p].out.ok

\* C24: every step leaves the stored logs as they are, except that a
\* createSafetyLog whose store call succeeds appends exactly one log, the one
\* it built, and leaves the safety areas as they are; a step that changes a
\* safety area changes no log.
C24_LogsAppendOnly ==
  [][LET old == db.safety_logs
         new == db'.safety_logs
     IN /\ Len(new) >= Len(old)
        /\ SubSeq(new, 1, Len(old)) = old
        /\ \A p \in Procs :
             LogWritten(p) =>
               /\ new = Append(old, proc[p].plan.create)
               /\ db'.safety_areas = db.safety_areas
        /\ new # old => \E p \in Procs : LogWritten(p)
        /\ db'.safety_areas # db.safety_areas => new = old]_vars

\* Two logs are stored for an area, and the area was then updated with
\* success by a text message.
C24_Witness ==
  /\ Len(db.safety_logs) = 2
  /\ \A i \in 1..2 : db.safety_logs[i].area_name = "Weld_Area"
  /\ TextUpserted("A")
  /\ proc["A"].plan.table = "safety_areas"
  /\ RowsBefore("A") # <<>>
  /\ proc["A"].before.safety_logs = db.safety_logs
  /\ Len(db.machines) = 1

\* The text that request p carries, "" when it carries none.
TextOf(p) ==
  IF IsWebhook(proc[p].route) THEN proc[p].body.text
  ELSE IF proc[p].route = "POST /machines/update" /\ Has(proc[p].body, "message")
  THEN proc[p].body.message.str
  ELSE ""

\* C25: a request carrying a text that names no machine, zone or order makes
\* no store call, and when it is finished every record is as it was.
C25_NoKeyNoWrite ==
  \A p \in Procs :
    TextOf(p) \in NoKeyTexts =>
      /\ proc[p].pc \notin {"find", "write", "answer"}
      /\ proc[p].pc = "done" => db = proc[p].before

\* The record that a successful batch outcome carries.
BatchRow(route, out) == IF BatchOfMachines(route) THEN out.machine ELSE out.order

\* C26: while a batch runs and after it has replied or aborted, the record of
\* every key that an item of the batch wrote is in the store as the last
\* successful item for that key left it, whatever became of the later items.
C26_BatchProgressKept ==
  \A p \in Procs :
    (IsBatch(proc[p].route) /\ proc[p].pc # "idle") =>
      LET route == proc[p].route
          keyf  == ItemKey(route)
          res   == proc[p].results
          table == IF BatchOfMachines(route) THEN "machines" ELSE "orders"
      IN \A i \in 1..Len(res) :
           (/\ res[i].success
            /\ \A j \in (i + 1)..Len(res) :
                 res[j].success => BatchRow(route, res[j])[keyf] # BatchRow(route, res[i])[keyf]) =>
             SelectWhere(db[table], keyf, BatchRow(route, res[i])[keyf]) = <<BatchRow(route, res[i])>>

\* A batch of orders wrote ORD1024, failed on its second item and aborted on a
\* null third item, and ORD1024 is stored as the first item left it.
C26_Witness ==
  /\ proc["A"].pc = "done"
  /\ proc["A"].route = "POST /orders/batch"
  /\ Has(proc["A"].body, "orders")
  /\ Len(proc["A"].body.orders) = 3
  /\ proc["A"].body.orders[3] = NullItem
  /\ proc["A"].resp.code = 500
  /\ Len(proc["A"].results) = 2
  /\ proc["A"].results[1].success
  /\ ~proc["A"].results[2].success
  /\ proc["A"].results[1].order.order_id = "ORD1024"
  /\ proc["A"].before.orders = <<>>
  /\ db.orders = <<proc["A"].results[1].order>>

\* The key column of a table of keyed records.
KeyColumn(table) ==
  IF table = "machines" THEN "machine_id"
  ELSE IF table = "safety_areas" THEN "area_name"
  ELSE "order_id"

\* The keys stored in a table.
KeysOf(rows, keyField) == {rows[i][keyField] : i \in 1..Len(rows)}

\* C27: every step keeps a record for each machine, safety area and order key
\* that had one.
C27_KeysOnlyGrow ==
  [][\A tb \in {"machines", "safety_areas", "orders"} :
       KeysOf(db[tb], KeyColumn(tb)) \subseteq KeysOf(db'[tb], KeyColumn(tb))]_vars

\* Machines M01 and M02, an order and a safety area are stored, and M02 was
\* updated after it existed.
C27_Witness ==
  /\ KeysOf(db.machines, "machine_id") = {"M01", "M02"}
  /\ KeysOf(db.orders, "order_id") = {"ORD1024"}
  /\ KeysOf(db.safety_areas, "area_name") = {"Weld_Area"}
  /\ Upserted("B")
  /\ proc["B"].plan.key = "M02"
  /\ RowsBefore("B") # <<>>
  /\ Len(proc["B"].before.machines) = 2

\* The stored orders other than the one of code c.
OtherOrders(rows, c) == {rows[i] : i \in {j \in 1..Len(rows) : rows[j].order_id # c}}

\* C28: an order text message that names order code c is carried out as an
\* upsert of the order keyed c, and once it is done the stored orders of
\* every other key are as they were.
C28_OrderTextsKeyedByOwnCode ==
  \A p \in Procs :
    (IsWebhook(proc[p].route) /\ proc[p].plan.op = "upsert" /\ proc[p].plan.table = "orders") =>
      \A c \in OrderCodes :
        Mentions(proc[p].body.text, c) =>
          /\ proc[p].plan.key = c
          /\ proc[p].pc = "done" =>
               OtherOrders(db.orders, c) = OtherOrders(proc[p].before.orders, c)

\* C29: no step lowers the last-modified timestamp of a stored machine or
\* order.
C29_StampNeverDecreases ==
  [][\A tb \in {"machines", "orders"} :
       \A i \in 1..Len(db[tb]) :
         /\ i <= Len(db'[tb])
         /\ db'[tb][i][StampColumn(tb)] >= db[tb][i][StampColumn(tb)]]_vars

====
